---- MODULE Spec2Model ----
(***************************************************************************)
(* Model of the isthmus query safety pipeline:                             *)
(*   queryHandler -> QueryService.Execute -> PgQueryValidator.Validate     *)
(*     -> [ExplainOnlyExecutor] -> Executor.Execute (pgx transaction)      *)
(*     -> auditor.Record -> domain.MaskRows -> tool result                 *)
(* and of PolicyExplorer.DescribeTable (merge + sample-row masking), the    *)
(* policy loader, FileAuditor.Record, the alias-aware masker, the bearer   *)
(* middleware of the HTTP transport, the tool-call hooks and the start-to- *)
(* exit life of the process (signal, srv.Shutdown, the deferred closes).   *)
(*                                                                         *)
(* SQL text is a sequence of lexical tokens.  String concatenation, the    *)
(* TrimSpace/ToUpper/HasPrefix test of isExplain and the LIMIT wrapper act *)
(* on the token sequence; the PostgreSQL grammar (pg_query.Parse, and the  *)
(* server's own parser) is the operator Parse over a small grammar:        *)
(*   stmts ::= stmt (";" stmt)*        (empty statements are dropped)      *)
(*   stmt  ::= ["EXPLAIN" ["ANALYZE"]] core                                *)
(*   core  ::= "SELECT" target*  |  "DELETE"  |  "DROP"                     *)
(* (EXPLAIN takes a SELECT or a DELETE, never a DROP).                     *)
(* Scalar values are tagged records; strings are sequences of characters.  *)
(***************************************************************************)
EXTENDS Integers, Sequences, FiniteSets, TLC

\* ------------------------------------------------------------------ bounds
MaxSqlLen == 3         \* longest SQL text (in tokens) the validator is tried on
MaxTargets == 2        \* longest SELECT list of a query sent through the pipeline
MaxRowCap == 2         \* configured max_rows ranges over 1..MaxRowCap
MaxPlanLines == 2      \* an EXPLAIN plan has 1..MaxPlanLines lines
MaxInboundDeadline == 2 \* inbound context deadline: none, or 1..this (ticks from now)
QueryTimeout == 2      \* configured query timeout, in ticks
MaxSampleRows == 2     \* DescribeTable returns 0..MaxSampleRows sample rows
MaxListedTables == 2   \* ListTables returns 0..MaxListedTables tables
MaxPolicyTables == 2   \* a policy file annotates 0..MaxPolicyTables tables
MaxWriters == 2        \* goroutines calling FileAuditor.Record concurrently
MaxTokenLen == 2       \* the bearer token has 1..MaxTokenLen characters
MaxHeaderLen == 4      \* an Authorization header has 0..MaxHeaderLen symbols
MaxRequests == 2       \* HTTP requests the server accepts before it is signalled
MaxCalls == 2          \* tool calls in flight at the same time
MaxAliasTargets == 2   \* longest SELECT list given to the alias-aware masker

\* ------------------------------------------------------------------ values
NilV == [t |-> "nil", s |-> <<>>, n |-> 0]
StrV(chars) == [t |-> "str", s |-> chars, n |-> 0]
IntV(i) == [t |-> "int", s |-> <<>>, n |-> i]

RECURSIVE Digits(_)
\* decimal rendering of a non-negative integer (fmt.Sprintf("%v", int))
Digits(i) ==
    LET d == <<"0", "1", "2", "3", "4", "5", "6", "7", "8", "9">>
    IN  IF i < 10 THEN <<d[i + 1]>> ELSE Digits(i \div 10) \o <<d[(i % 10) + 1]>>

\* fmt.Sprintf("%v", value): the default string rendering
Render(v) == IF v.t = "int" THEN Digits(v.n) ELSE v.s

\* sha256.Sum256 + "%x": an injective digest of the rendering, marked by a
\* leading digest tag (the 64 hex digits themselves are not modelled)
Sha256Hex(chars) == <<"sha256:">> \o chars

maskPartial(value) ==
    LET runes == Render(value)
    IN  IF Len(runes) <= 4
        THEN <<"*", "*", "*">> \o runes
        ELSE [i \in 1..Len(runes) |-> IF i <= Len(runes) - 4 THEN "*" ELSE runes[i]]

ApplyMask(value, maskType) ==
    IF value = NilV THEN NilV
    ELSE CASE maskType = "redact"  -> StrV(<<"*", "*", "*">>)
           [] maskType = "hash"    -> StrV(Sha256Hex(Render(value)))
           [] maskType = "partial" -> StrV(maskPartial(value))
           [] maskType = "null"    -> NilV
           [] OTHER                -> value

MaskRow(row, masks) ==
    [c \in DOMAIN row |-> IF c \in DOMAIN masks THEN ApplyMask(row[c], masks[c]) ELSE row[c]]

\* bug variant: only the first row is masked
MaskRowsFirstOnly(rows, masks) ==
    IF DOMAIN masks = {} THEN rows
    ELSE [i \in 1..Len(rows) |-> IF i = 1 THEN MaskRow(rows[i], masks) ELSE rows[i]]

MaskRows(rows, masks) ==
    IF DOMAIN masks = {} THEN rows
    ELSE [i \in 1..Len(rows) |-> MaskRow(rows[i], masks)]

\* ------------------------------------------------------------------ SQL text
Kw(k) == [k |-> k, col |-> "", as |-> "", n |-> 0]
Target(c, a) == [k |-> "target", col |-> c, as |-> a, n |-> 0]
WrapOpen == Kw("SELECT * FROM (")
WrapClose(limit) == [k |-> ") AS _q LIMIT", col |-> "", as |-> "", n |-> limit]

Targets == {Target("id", ""), Target("Email", ""), Target("Email", "email")}
Alphabet == {Kw("EXPLAIN"), Kw("ANALYZE"), Kw("SELECT"), Kw("DELETE"), Kw("DROP"),
             Kw(";"), Kw(" ")}
                \cup Targets

RECURSIVE TrimLeft(_)
TrimLeft(s) == IF s # <<>> /\ Head(s) = Kw(" ") THEN TrimLeft(Tail(s)) ELSE s

RECURSIVE TrimRight(_)
TrimRight(s) ==
    IF s # <<>> /\ s[Len(s)] = Kw(" ") THEN TrimRight(SubSeq(s, 1, Len(s) - 1)) ELSE s

TrimSpace(s) == TrimRight(TrimLeft(s))

RECURSIVE NoSpace(_)
\* the lexer skips whitespace between tokens
NoSpace(s) ==
    IF s = <<>> THEN <<>>
    ELSE IF Head(s) = Kw(" ") THEN NoSpace(Tail(s))
    ELSE <<Head(s)>> \o NoSpace(Tail(s))

RECURSIVE SplitStmts(_, _)
\* raw statements separated by ";" (cur is the statement being collected)
SplitStmts(s, cur) ==
    IF s = <<>> THEN <<cur>>
    ELSE IF Head(s) = Kw(";") THEN <<cur>> \o SplitStmts(Tail(s), <<>>)
    ELSE SplitStmts(Tail(s), Append(cur, Head(s)))

NoStmt == [ok |-> FALSE, kind |-> "", analyze |-> FALSE, inner |-> "", targets |-> <<>>]

ParseCore(p) ==
    IF p = <<>> THEN NoStmt
    ELSE IF Head(p) = Kw("SELECT") /\ \A i \in 2..Len(p) : p[i].k = "target"
         THEN [ok |-> TRUE, kind |-> "SelectStmt", analyze |-> FALSE, inner |-> "",
               targets |-> Tail(p)]
    ELSE IF p = <<Kw("DELETE")>>
         THEN [ok |-> TRUE, kind |-> "DeleteStmt", analyze |-> FALSE, inner |-> "",
               targets |-> <<>>]
    ELSE IF p = <<Kw("DROP")>>
         THEN [ok |-> TRUE, kind |-> "DropStmt", analyze |-> FALSE, inner |-> "",
               targets |-> <<>>]
    ELSE NoStmt

ParseStmt(p) ==
    IF p # <<>> /\ Head(p) = Kw("EXPLAIN")
    THEN LET r == Tail(p)
             an == r # <<>> /\ Head(r) = Kw("ANALYZE")
             core == ParseCore(IF an THEN Tail(r) ELSE r)
         IN  IF core.ok /\ core.kind \in {"SelectStmt", "DeleteStmt"}
             THEN [ok |-> TRUE, kind |-> "ExplainStmt", analyze |-> an,
                   inner |-> core.kind, targets |-> core.targets]
             ELSE NoStmt
    ELSE ParseCore(p)

\* pg_query.Parse: the parsed statement list, or a parse error
Parse(s) ==
    LET raw == SplitStmts(s, <<>>)
        nonEmpty == SelectSeq([i \in 1..Len(raw) |-> NoSpace(raw[i])], LAMBDA p : p # <<>>)
        stmts == [i \in 1..Len(nonEmpty) |-> ParseStmt(nonEmpty[i])]
    IN  [err |-> \E i \in 1..Len(stmts) : ~stmts[i].ok, Stmts |-> stmts]

\* ------------------------------------------------------------------ errors
NoErr == [stage |-> "", cause |-> ""]
ErrEmptyQuery == [stage |-> "validate", cause |-> "empty query"]
ErrNotAllowed == [stage |-> "validate", cause |-> "only SELECT queries are allowed"]
ErrMultiStatement == [stage |-> "validate", cause |-> "multiple statements are not allowed"]
ErrParseFailed == [stage |-> "validate", cause |-> "failed to parse SQL"]
ErrNotFound == [stage |-> "validate", cause |-> "not found"]

\* bug variant: the multi-statement check is missing
ValidateFirstOnly(sql) ==
    LET trimmed == TrimSpace(sql)
        tree == Parse(trimmed)
    IN  IF trimmed = <<>> THEN ErrEmptyQuery
        ELSE IF tree.err THEN ErrParseFailed
        ELSE IF Len(tree.Stmts) = 0 THEN ErrEmptyQuery
        ELSE IF tree.Stmts[1].kind \in {"SelectStmt", "ExplainStmt"} THEN NoErr
        ELSE ErrNotAllowed

Validate(sql) ==
    LET trimmed == TrimSpace(sql)
        tree == Parse(trimmed)
    IN  IF trimmed = <<>> THEN ErrEmptyQuery
        ELSE IF tree.err THEN ErrParseFailed
        ELSE IF Len(tree.Stmts) = 0 THEN ErrEmptyQuery
        ELSE IF Len(tree.Stmts) > 1 THEN ErrMultiStatement
        ELSE IF tree.Stmts[1].kind \in {"SelectStmt", "ExplainStmt"} THEN NoErr
        ELSE ErrNotAllowed

\* ------------------------------------------------------------------ executor helpers
isExplain(sql) ==
    LET t == TrimSpace(sql) IN t # <<>> /\ Head(t) = Kw("EXPLAIN")

\* bug variant: the limit is off by one
WrapSQLOffByOne(sql, maxRows) ==
    IF isExplain(sql) THEN sql ELSE <<WrapOpen>> \o sql \o <<WrapClose(maxRows + 1)>>

\* fmt.Sprintf("SELECT * FROM (%s) AS _q LIMIT %d", sql, e.maxRows), or verbatim
WrapSQL(sql, maxRows) ==
    IF isExplain(sql) THEN sql ELSE <<WrapOpen>> \o sql \o <<WrapClose(maxRows)>>

accessMode(readOnly) == IF readOnly THEN "ReadOnly" ELSE "ReadWrite"

\* ExplainOnlyExecutor.Execute: the SQL handed to the inner executor
ExplainOnlyRewrite(sql) ==
    IF ~isExplain(sql) THEN <<Kw("EXPLAIN"), Kw(" ")>> \o sql ELSE sql

NoDeadline == 0 - 1
\* bug variant: a fresh deadline that ignores the inbound context
WithTimeoutDetached(parent, timeout) == timeout

\* context.WithTimeout(ctx, d): the child deadline is the earlier of the
\* parent's deadline and now + d (ticks are counted from now)
WithTimeout(parent, timeout) ==
    IF parent = NoDeadline \/ timeout < parent THEN timeout ELSE parent

\* ------------------------------------------------------------------ database
EmptyRow == [c \in {} |-> NilV]
ColName(t) == IF t.as # "" THEN t.as ELSE t.col

RECURSIVE ProjectRow(_, _, _)
\* rowsToMaps: row[fd.Name] = vals[i], a later field of the same name wins
ProjectRow(row, targets, acc) ==
    IF targets = <<>> THEN acc
    ELSE LET t == Head(targets)
             name == ColName(t)
         IN  ProjectRow(row, Tail(targets),
                 [c \in DOMAIN acc \cup {name} |-> IF c = name THEN row[t.col] ELSE acc[c]])

Project(tbl, targets) == [i \in 1..Len(tbl) |-> ProjectRow(tbl[i], targets, EmptyRow)]

FirstN(rows, limit) == SubSeq(rows, 1, IF Len(rows) < limit THEN Len(rows) ELSE limit)

PlanRows(lines) == [i \in 1..lines |-> [c \in {"QUERY PLAN"} |-> StrV(<<"p", "l", "a", "n">>)]]

DbError(tbl) == [err |-> TRUE, rows |-> <<>>, tbl |-> tbl, ran |-> FALSE]

\* What the server does with one statement text inside a transaction of the
\* given access mode: the rows it produces and the table as the transaction
\* then sees it.  A write in a read-only transaction is refused (25006).
\* ran tells whether the statement was executed: a plain EXPLAIN only plans
\* its statement, EXPLAIN ANALYZE executes it.
DbRun(w, mode, tbl, lines) ==
    IF Len(w) >= 2 /\ Head(w) = WrapOpen /\ w[Len(w)].k = WrapClose(0).k
    THEN LET inner == SubSeq(w, 2, Len(w) - 1)
             tree == Parse(inner)
         IN  IF (\E i \in 1..Len(inner) : inner[i] = Kw(";")) \/ tree.err
                   \/ Len(tree.Stmts) # 1
             THEN DbError(tbl)
             ELSE IF tree.Stmts[1].kind # "SelectStmt" THEN DbError(tbl)
             ELSE [err |-> FALSE, tbl |-> tbl, ran |-> TRUE,
                   rows |-> FirstN(Project(tbl, tree.Stmts[1].targets), w[Len(w)].n)]
    ELSE LET tree == Parse(w)
         IN  IF tree.err \/ Len(tree.Stmts) # 1 THEN DbError(tbl)
             ELSE LET st == tree.Stmts[1]
                      writes == st.kind \in {"DeleteStmt", "DropStmt"}
                                  \/ (st.kind = "ExplainStmt" /\ st.analyze
                                        /\ st.inner = "DeleteStmt")
                  IN  IF writes /\ mode = "ReadOnly" THEN DbError(tbl)
                      ELSE [err |-> FALSE,
                            ran |-> st.kind # "ExplainStmt" \/ st.analyze,
                            tbl |-> IF writes THEN <<>> ELSE tbl,
                            rows |-> IF st.kind = "ExplainStmt" THEN PlanRows(lines)
                                     ELSE IF st.kind = "SelectStmt"
                                          THEN Project(tbl, st.targets)
                                     ELSE <<>>]

\* ------------------------------------------------------------------ policy
Col(desc, mask) == [Description |-> desc, Mask |-> mask]
NoColumns == [c \in {} |-> Col("", "")]
NoTables == [k \in {} |-> [Description |-> "", Columns |-> NoColumns]]

PolEmpty == [Context |-> [Tables |-> NoTables]]
PolRedact ==
    [Context |-> [Tables |-> [k \in {"public.users"} |->
        [Description |-> "Registered users",
         Columns |-> [c \in {"Email"} |-> Col("User email", "redact")]]]]]
PolMixed ==
    [Context |-> [Tables |-> [k \in {"public.users", "public.orders"} |->
        IF k = "public.users"
        THEN [Description |-> "",
              Columns |-> [c \in {"id", "Email"} |->
                  IF c = "id" THEN Col("", "hash") ELSE Col("", "partial")]]
        ELSE [Description |-> "Orders",
              Columns |-> [c \in {"Email", "id"} |->
                  IF c = "id" THEN Col("Order id", "") ELSE Col("", "partial")]]]]]
PolNull ==
    [Context |-> [Tables |-> [k \in {"public.users"} |->
        [Description |-> "",
         Columns |-> [c \in {"Email", "id"} |->
             IF c = "id" THEN Col("Primary key", "") ELSE Col("", "null")]]]]]

\* the policies a validated policy file can hold
Policies == {PolEmpty, PolRedact, PolMixed, PolNull}

\* MaskSpec: column name -> mask, over every table (map iteration order is
\* unspecified, so every assignment some iteration order produces is a result)
MaskSpecs(ctx) ==
    LET masked(c) == {ctx.Tables[k].Columns[c].Mask :
                          k \in {k2 \in DOMAIN ctx.Tables :
                                    /\ c \in DOMAIN ctx.Tables[k2].Columns
                                    /\ ctx.Tables[k2].Columns[c].Mask # ""}}
        cols == {c \in UNION {DOMAIN ctx.Tables[k].Columns : k \in DOMAIN ctx.Tables} :
                    masked(c) # {}}
    IN  {f \in [cols -> {"redact", "hash", "partial", "null"}] :
            \A c \in cols : f[c] \in masked(c)}

\* bug variant: the policy description replaces a database comment
MergeTableDetailOverrides(detail, ctx) ==
    LET key == detail.Schema \o "." \o detail.Name
    IN  IF key \notin DOMAIN ctx.Tables THEN detail
        ELSE LET tc == ctx.Tables[key]
                 mergeCol(col) ==
                     IF /\ col.Name \in DOMAIN tc.Columns
                        /\ tc.Columns[col.Name].Description # ""
                     THEN [col EXCEPT !.Comment = tc.Columns[col.Name].Description]
                     ELSE col
             IN  [detail EXCEPT
                    !.Comment = IF tc.Description # "" THEN tc.Description ELSE @,
                    !.Columns = [i \in 1..Len(@) |-> mergeCol(detail.Columns[i])]]

MergeTableDetail(detail, ctx) ==
    LET key == detail.Schema \o "." \o detail.Name
    IN  IF key \notin DOMAIN ctx.Tables THEN detail
        ELSE LET tc == ctx.Tables[key]
                 mergeCol(col) ==
                     IF /\ col.Name \in DOMAIN tc.Columns
                        /\ col.Comment = ""
                        /\ tc.Columns[col.Name].Description # ""
                     THEN [col EXCEPT !.Comment = tc.Columns[col.Name].Description]
                     ELSE col
             IN  [detail EXCEPT
                    !.Comment = IF @ = "" /\ tc.Description # "" THEN tc.Description ELSE @,
                    !.Columns = [i \in 1..Len(@) |-> mergeCol(detail.Columns[i])]]

MergeTableInfoList(tables, ctx) ==
    [i \in 1..Len(tables) |->
        LET t == tables[i]
            key == t.Schema \o "." \o t.Name
        IN  IF key \in DOMAIN ctx.Tables /\ t.Comment = ""
                  /\ ctx.Tables[key].Description # ""
            THEN [t EXCEPT !.Comment = ctx.Tables[key].Description]
            ELSE t]

\* ------------------------------------------------------------------ policy loader
\* MaskType.Valid
Valid(m) == m \in {"redact", "hash", "partial", "null", ""}

LoadErr(kind, col, m1, t1, m2, t2) ==
    [kind |-> kind, col |-> col, mask1 |-> m1, table1 |-> t1, mask2 |-> m2, table2 |-> t2]

\* bug variant: the comparison of the two masks is inverted
conflictsInverted(seen, col, mask) == col \in DOMAIN seen /\ seen[col].mask = mask

\* validate: prev, exists := seen[col]; exists && prev.mask != cc.Mask
conflicts(seen, col, mask) == col \in DOMAIN seen /\ seen[col].mask # mask

RECURSIVE validateColumns(_, _, _, _)
\* the inner loop of validate over the columns of table key, visited in the
\* order cols; returns the error, or the updated seen map
validateColumns(key, tc, cols, seen) ==
    IF cols = <<>> THEN [err |-> LoadErr("", "", "", "", "", ""), seen |-> seen]
    ELSE LET col == Head(cols)
             cc == tc.Columns[col]
         IN  IF col = ""
             THEN [err |-> LoadErr("empty column key", "", "", key, "", ""), seen |-> seen]
             ELSE IF ~Valid(cc.Mask)
             THEN [err |-> LoadErr("invalid mask", col, cc.Mask, key, "", ""), seen |-> seen]
             ELSE IF cc.Mask = "" THEN validateColumns(key, tc, Tail(cols), seen)
             ELSE IF conflicts(seen, col, cc.Mask)
             THEN [err |-> LoadErr("conflicting masks", col, seen[col].mask,
                                   seen[col].table, cc.Mask, key),
                   seen |-> seen]
             ELSE validateColumns(key, tc, Tail(cols),
                      [c \in DOMAIN seen \cup {col} |->
                          IF c = col THEN [mask |-> cc.Mask, table |-> key] ELSE seen[c]])

RECURSIVE validateTables(_, _, _, _)
\* the outer loop of validate over the tables, visited in the order keys
validateTables(p, keys, colOrder, seen) ==
    IF keys = <<>> THEN LoadErr("", "", "", "", "", "")
    ELSE LET key == Head(keys)
         IN  IF key = "" THEN LoadErr("empty table key", "", "", "", "", "")
             ELSE LET r == validateColumns(key, p.Context.Tables[key], colOrder[key], seen)
                  IN  IF r.err.kind # "" THEN r.err
                      ELSE validateTables(p, Tail(keys), colOrder, r.seen)

\* validate(pol) under one iteration order of the two maps
validate(p, tableOrder, colOrder) ==
    validateTables(p, tableOrder, colOrder, [c \in {} |-> [mask |-> "", table |-> ""]])

\* the orders a range over a map can take
Perms(S) ==
    {s \in [1..Cardinality(S) -> S] : \A i, j \in 1..Cardinality(S) : s[i] = s[j] => i = j}

\* a table of the policy files below has at most two columns, so a range
\* over its columns takes a fixed order or the reverse of it
ColumnOrder(cols, reversed) ==
    LET fwd == SelectSeq(<<"email", "id", "">>, LAMBDA c : c \in cols)
    IN  IF reversed THEN [i \in 1..Len(fwd) |-> fwd[Len(fwd) + 1 - i]] ELSE fwd

\* policy files: table keys with and without a schema, an email column that
\* is absent ("-"), unmasked, redacted or hashed, and next to it nothing, an
\* id column with an unknown mask, or a column with an empty name
PolicyKeys == {"", "users", "public.users", "public.orders"}
ColumnMaps ==
    {[c \in (IF e = "-" THEN {} ELSE {"email"})
              \cup (IF o = "id" THEN {"id"} ELSE IF o = "empty" THEN {""} ELSE {}) |->
         IF c = "email" THEN Col("", e) ELSE IF c = "id" THEN Col("", "bogus") ELSE Col("", "")] :
       e \in {"-", "", "redact", "hash"}, o \in {"none", "id", "empty"}}
PolicyFiles ==
    {[Context |-> [Tables |-> f]] :
        f \in UNION {[K -> {[Description |-> "", Columns |-> cm] : cm \in ColumnMaps}] :
                        K \in {K2 \in SUBSET PolicyKeys : Cardinality(K2) <= MaxPolicyTables}}}

\* ------------------------------------------------------------------ data
Alice == StrV(<<"a", "l", "i", "c", "e", "@", "x">>)
Bob == StrV(<<"b", "o", "b">>)
UserRow(id, email) == [c \in {"id", "Email"} |-> IF c = "id" THEN id ELSE email]
SampleRowSet == {UserRow(IntV(1), Alice), UserRow(IntV(2), NilV), UserRow(IntV(12345), Bob)}
InitialTable == <<UserRow(IntV(1), Alice), UserRow(IntV(2), NilV), UserRow(IntV(12345), Bob)>>

NoDetail == [Schema |-> "", Name |-> "", Comment |-> "", Columns |-> <<>>, SampleRows |-> <<>>]
\* ColumnStats as fetchColumnStats fills it from pg_stats: none, the most
\* common values of an enum-like column, or the two ends of the histogram
NoStats == [MostCommonVals |-> <<>>, MinValue |-> <<>>, MaxValue |-> <<>>]
EmailStats ==
    {NoStats,
     [MostCommonVals |-> <<Alice.s, Bob.s>>, MinValue |-> <<>>, MaxValue |-> <<>>],
     [MostCommonVals |-> <<>>, MinValue |-> Alice.s, MaxValue |-> Bob.s]}
InnerDetails ==
    {[Schema |-> "public", Name |-> nm, Comment |-> cm,
      Columns |-> <<[Name |-> "id", Comment |-> "", Stats |-> NoStats],
                    [Name |-> "Email", Comment |-> ec, Stats |-> st]>>,
      SampleRows |-> sr] :
        nm \in {"users", "audit"}, cm \in {"", "db table comment"},
        ec \in {"", "db column comment"}, st \in EmailStats,
        sr \in UNION {[1..n -> SampleRowSet] : n \in 0..MaxSampleRows}}

\* the tables the inner explorer can list
TableInfos ==
    {[Schema |-> "public", Name |-> nm, Type |-> "table", ColumnCount |-> 2, Comment |-> cm] :
        nm \in {"users", "orders", "audit"}, cm \in {"", "db table comment"}}
InnerTableLists == UNION {[1..n -> TableInfos] : n \in 0..MaxListedTables}

\* ------------------------------------------------------------------ tool boundary
\* errors.Is against the five domain sentinels
isValidationError(e) ==
    e \in {ErrEmptyQuery, ErrNotAllowed, ErrMultiStatement, ErrParseFailed, ErrNotFound}

\* bug variant: the server-side statement timeout is not recognised
isTimeoutErrorCtxOnly(e) == e.cause = "context deadline exceeded"

\* context.DeadlineExceeded, or a PgError with code 57014, anywhere in the chain
isTimeoutError(e) == e.cause \in {"context deadline exceeded", "SQLSTATE 57014"}
isConnectionError(e) == e.cause = "connect error"

\* bug variant: an unclassified error is passed through
sanitizeErrorLeaks(e, operation) ==
    IF isValidationError(e) THEN <<operation, e.cause>>
    ELSE IF isTimeoutError(e) THEN <<operation, "query timed out">>
    ELSE IF isConnectionError(e) THEN <<operation, "database unavailable">>
    ELSE <<operation, e.cause>>

sanitizeError(e, operation) ==
    IF isValidationError(e) THEN <<operation, e.cause>>
    ELSE IF isTimeoutError(e) THEN <<operation, "query timed out">>
    ELSE IF isConnectionError(e) THEN <<operation, "database unavailable">>
    ELSE <<operation, "internal error (check server logs)">>

\* the ways a pgx call can fail whatever the statement is: the context
\* deadline or a cancellation at any call, a connection failure when the
\* connection is acquired, the server-side statement timeout while a
\* statement runs
StageCauses(stage) ==
    {"context deadline exceeded", "context canceled"}
        \cup (IF stage = "beginning transaction" THEN {"connect error"} ELSE {})
        \cup (IF stage \in {"executing query", "iterating rows"}
              THEN {"SQLSTATE 57014"} ELSE {})
ExecErr(stage, cause) == [stage |-> stage, cause |-> cause]

\* the errors the inner explorer's DescribeTable can return: the table does
\* not exist, or the catalog query failed
DescribeErrors ==
    {ErrNotFound} \cup {ExecErr("querying table", c) :
                            c \in {"context deadline exceeded", "connect error",
                                   "SQLSTATE other"}}

\* ------------------------------------------------------------------ alias-aware masking
NoAliases == [c \in {} |-> ""]

RECURSIVE AliasesOf(_, _)
\* the loop over the target list: aliases[colName] = alias for every aliased
\* plain column reference whose alias differs from the column name
AliasesOf(targets, aliases) ==
    IF targets = <<>> THEN aliases
    ELSE LET t == Head(targets)
         IN  AliasesOf(Tail(targets),
                 IF t.as # "" /\ t.col # "" /\ t.col # t.as
                 THEN [c \in DOMAIN aliases \cup {t.col} |->
                          IF c = t.col THEN t.as ELSE aliases[c]]
                 ELSE aliases)

ExtractAliasMap(s) ==
    LET tree == Parse(s)
    IN  IF tree.err \/ Len(tree.Stmts) = 0 THEN NoAliases
        ELSE IF tree.Stmts[1].kind # "SelectStmt" THEN NoAliases
        ELSE AliasesOf(tree.Stmts[1].targets, NoAliases)

RECURSIVE MaskAliasedRow(_, _, _, _)
\* the loop over the masks of one row, in the order the range visits them
MaskAliasedRow(row, masks, aliases, order) ==
    IF order = <<>> THEN row
    ELSE LET col == Head(order)
             next ==
                 IF col \in DOMAIN row
                 THEN [row EXCEPT ![col] = ApplyMask(row[col], masks[col])]
                 ELSE IF col \in DOMAIN aliases /\ aliases[col] \in DOMAIN row
                 THEN [row EXCEPT ![aliases[col]] = ApplyMask(row[aliases[col]], masks[col])]
                 ELSE row
         IN  MaskAliasedRow(next, masks, aliases, Tail(order))

MaskRowsWithAliases(rows, masks, aliases, order) ==
    IF DOMAIN masks = {} THEN rows
    ELSE IF DOMAIN aliases = {} THEN MaskRows(rows, masks)
    ELSE [i \in 1..Len(rows) |-> MaskAliasedRow(rows[i], masks, aliases, order)]

\* ------------------------------------------------------------------ state
VARIABLES
    cfg,          \* validated configuration: readOnly, explainOnly, maxRows, queryTimeout
    pol,          \* the loaded policy
    masks,        \* MaskSpec derived from the policy at startup
    table,        \* committed content of the database table
    pc,           \* position of the request being served
    sql,          \* the SQL QueryService.Execute was called with
    wrappedSQL,   \* the statement text Executor.Execute sends
    inbound,      \* deadline of the context Executor.Execute is running under
    ctxDeadline,  \* deadline of the context Executor.Execute derived from it
    tx,           \* the executor's transaction
    fetched,      \* rows produced by the server for the statement in flight
    results,      \* rows held by QueryService.Execute
    err,          \* error held by QueryService.Execute
    rawRows,      \* the rows as the executor returned them (before masking)
    sent,         \* statement texts sent with tx.Query
    execCalls,    \* calls of executor.Execute made by this request
    trace,        \* the steps of this request, in order
    auditLog,     \* records appended by auditor.Record
    queryCount,   \* QueryCount instrument
    queryErrors,  \* QueryErrors instrument
    toolResult,   \* what the tool handler returns to the client
    innerDetail,  \* what the inner explorer returned to PolicyExplorer.DescribeTable
    detail,       \* what PolicyExplorer.DescribeTable returned
    innerTables,  \* what the inner explorer returned to PolicyExplorer.ListTables
    tableList,    \* what PolicyExplorer.ListTables returned
    polFile,      \* the policy file handed to LoadFromFile
    loadResult,   \* what LoadFromFile returned
    recEntry,     \* FileAuditor: the entry each goroutine records
    recPc,        \* FileAuditor: position of each goroutine in Record
    recBuf,       \* FileAuditor: bytes of the encoded line not yet written
    mu,           \* FileAuditor: holder of the mutex (0 when free)
    file,         \* FileAuditor: content of the audit file
    httpToken,    \* HTTP transport: the configured bearer token
    httpHeader,   \* HTTP transport: Authorization header of the request to /mcp
    httpStatus,   \* HTTP transport: status written by the middleware (0: none yet)
    handlerCalls, \* HTTP transport: times the MCP handler was invoked
    srv,          \* process lifecycle: phase, error returned by serveHTTP, exit status
    otel,         \* process lifecycle: whether OpenTelemetry is enabled
    closed,       \* process lifecycle: the resources closed so far, in order
    reqs,         \* process lifecycle: state of each HTTP request slot
    recorded,     \* process lifecycle: requests whose audit record is in the file
    lost,         \* process lifecycle: requests whose Record hit a closed file
    callReq,      \* tool-call hooks: JSON-RPC request id of each call
    hookPc,       \* tool-call hooks: position of each call
    calls,        \* tool-call hooks: the sync.Map, request id -> stored callState
    consumed,     \* tool-call hooks: whose callState each call's end hook loaded
    spanEnds      \* tool-call hooks: times each call's span was ended

listing == <<innerTables, tableList>>
loading == <<polFile, loadResult>>
recording == <<recEntry, recPc, recBuf, mu, file>>
auth == <<httpToken, httpHeader, httpStatus, handlerCalls>>
lifecycle == <<srv, otel, closed, reqs, recorded, lost>>
hooks == <<callReq, hookPc, calls, consumed, spanEnds>>
serving == <<auth, lifecycle, hooks>>

vars == <<cfg, pol, masks, table, pc, sql, wrappedSQL, inbound, ctxDeadline, tx, fetched,
          results, err, rawRows, sent, execCalls, trace, auditLog, queryCount,
          queryErrors, toolResult, innerDetail, detail, listing, loading, recording,
          serving>>

startup == <<cfg, pol, masks>>
\* everything a tool request reads or writes
request == <<table, pc, sql, wrappedSQL, inbound, ctxDeadline, tx, fetched, results, err,
             rawRows, sent, execCalls, trace, auditLog, queryCount, queryErrors, toolResult,
             innerDetail, detail>>
NoTx == [state |-> "none", mode |-> "", timeoutSet |-> FALSE, pending |-> <<>>,
         conn |-> "none", ran |-> FALSE]
NoResult == [isError |-> FALSE, text |-> <<>>, rows |-> <<>>]

NoLoadErr == [kind |-> "", col |-> "", mask1 |-> "", table1 |-> "", mask2 |-> "", table2 |-> ""]
NotLoaded == [state |-> "none", err |-> NoLoadErr, pol |-> PolEmpty]
Writers == 1..MaxWriters
NoEntry == [Tool |-> "query", SQL |-> <<>>, RowsReturned |-> 0, Err |-> NoErr]

\* every SQL text of at most MaxSqlLen tokens
SqlTexts == UNION {[1..n -> Alphabet] : n \in 0..MaxSqlLen}

\* SELECT lists without a repeated item
TargetLists ==
    {tl \in UNION {[1..n -> Targets] : n \in 0..MaxTargets} :
        \A i, j \in 1..Len(tl) : tl[i] = tl[j] => i = j}

\* the SQL arguments sent through the whole pipeline: every statement of the
\* grammar, bare or under EXPLAIN [ANALYZE], and the irregular texts
PipelineArgs ==
    {p \o c : p \in {<<>>, <<Kw("EXPLAIN"), Kw(" ")>>,
                     <<Kw("EXPLAIN"), Kw(" "), Kw("ANALYZE"), Kw(" ")>>},
              c \in {<<Kw("SELECT")>> \o tl : tl \in TargetLists} \cup {<<Kw("DELETE")>>}}
      \cup {<<Kw("DROP")>>, <<>>, <<Kw(" ")>>, <<Kw(";")>>, <<Kw("ANALYZE")>>,
            <<Kw("SELECT"), Target("id", ""), Kw(";")>>,
            <<Kw("SELECT"), Kw(";"), Kw("DELETE")>>,
            <<Kw(" "), Kw("EXPLAIN"), Kw("SELECT")>>}

InboundDeadlines == {NoDeadline} \cup 1..MaxInboundDeadline

NoExit == 0 - 1

\* the state after construction, the entries to be recorded and the
\* transport set-up aside
InitRequest ==
    /\ cfg \in [readOnly : BOOLEAN, explainOnly : BOOLEAN, maxRows : 1..MaxRowCap,
                queryTimeout : {QueryTimeout}]
    /\ pol \in Policies
    /\ masks \in MaskSpecs(pol.Context)
    /\ table = InitialTable
    /\ pc = "idle"
    /\ sql = <<>>
    /\ wrappedSQL = <<>>
    /\ inbound = NoDeadline
    /\ ctxDeadline = NoDeadline
    /\ tx = NoTx
    /\ fetched = <<>>
    /\ results = <<>>
    /\ err = NoErr
    /\ rawRows = <<>>
    /\ sent = <<>>
    /\ execCalls = 0
    /\ trace = <<>>
    /\ auditLog = <<>>
    /\ queryCount = 0
    /\ queryErrors = 0
    /\ toolResult = NoResult
    /\ innerDetail = NoDetail
    /\ detail = NoDetail
    /\ innerTables = <<>>
    /\ tableList = <<>>
    /\ polFile = PolEmpty
    /\ loadResult = NotLoaded
    /\ recPc = [g \in Writers |-> "start"]
    /\ recBuf = [g \in Writers |-> <<>>]
    /\ mu = 0
    /\ file = <<>>
    /\ httpHeader = <<>>
    /\ httpStatus = 0
    /\ handlerCalls = 0
    /\ srv = [phase |-> "serving", err |-> "", exit |-> NoExit]
    /\ closed = <<>>
    /\ reqs = [r \in 1..MaxRequests |-> "none"]
    /\ recorded = {}
    /\ lost = {}
    /\ callReq = [c \in 1..MaxCalls |-> 0]
    /\ hookPc = [c \in 1..MaxCalls |-> "idle"]
    /\ calls = [id \in {} |-> 0]
    /\ consumed = [c \in 1..MaxCalls |-> 0]
    /\ spanEnds = [c \in 1..MaxCalls |-> 0]

\* the state after construction under one transport set-up
Init ==
    /\ InitRequest
    /\ recEntry = [g \in Writers |-> NoEntry]
    /\ httpToken = <<"a">>
    /\ otel = TRUE

\* ------------------------------------------------------------------ query tool
\* queryHandler up to the call of query.Execute
QueryHandler(arg, explain, analyze) ==
    /\ pc = "idle"
    /\ IF arg = <<>>
       THEN /\ toolResult' = [isError |-> TRUE, text |-> <<"sql is required">>, rows |-> <<>>]
            /\ pc' = "done"
            /\ sql' = sql
       ELSE /\ sql' = IF explain
                      THEN IF analyze
                           THEN <<Kw("EXPLAIN"), Kw(" "), Kw("ANALYZE"), Kw(" ")>> \o arg
                           ELSE <<Kw("EXPLAIN"), Kw(" ")>> \o arg
                      ELSE arg
            /\ pc' = "svc_validate"
            /\ toolResult' = toolResult
    /\ UNCHANGED <<startup, listing, loading, recording, serving, table, wrappedSQL, inbound, ctxDeadline, tx, fetched, results,
                   err, rawRows, sent, execCalls, trace, auditLog, queryCount, queryErrors,
                   innerDetail, detail>>

\* bug variant: the rejected SQL is handed to the auditor
SvcValidateAuditsRejection ==
    /\ pc = "svc_validate"
    /\ trace' = Append(trace, "validate")
    /\ LET v == Validate(sql)
       IN  IF v # NoErr
           THEN /\ err' = v
                /\ queryErrors' = queryErrors + 1
                /\ auditLog' = Append(auditLog,
                       [Tool |-> "query", SQL |-> sql, RowsReturned |-> 0, Err |-> v])
                /\ pc' = "svc_return"
           ELSE /\ pc' = "svc_execute"
                /\ UNCHANGED <<err, queryErrors, auditLog>>
    /\ UNCHANGED <<startup, listing, loading, recording, serving, table, sql, wrappedSQL, inbound, ctxDeadline, tx, fetched,
                   results, rawRows, sent, execCalls, queryCount, toolResult,
                   innerDetail, detail>>

\* bug variant: the rejection is counted but the call goes on to the executor
SvcValidateFallsThrough ==
    /\ pc = "svc_validate"
    /\ trace' = Append(trace, "validate")
    /\ LET v == Validate(sql)
       IN  IF v # NoErr
           THEN /\ queryErrors' = queryErrors + 1
                /\ pc' = "svc_execute"
                /\ UNCHANGED err
           ELSE /\ pc' = "svc_execute"
                /\ UNCHANGED <<err, queryErrors>>
    /\ UNCHANGED <<startup, listing, loading, recording, serving, table, sql, wrappedSQL, inbound, ctxDeadline, tx, fetched,
                   results, rawRows, sent, execCalls, auditLog, queryCount, toolResult,
                   innerDetail, detail>>

\* QueryService.Execute: s.validator.Validate(sql) and the rejection branch
SvcValidate ==
    /\ pc = "svc_validate"
    /\ trace' = Append(trace, "validate")
    /\ LET v == Validate(sql)
       IN  IF v # NoErr
           THEN /\ err' = v
                /\ queryErrors' = queryErrors + 1
                /\ pc' = "svc_return"
           ELSE /\ pc' = "svc_execute"
                /\ UNCHANGED <<err, queryErrors>>
    /\ UNCHANGED <<startup, listing, loading, recording, serving, table, sql, wrappedSQL, inbound, ctxDeadline, tx, fetched,
                   results, rawRows, sent, execCalls, auditLog, queryCount, toolResult,
                   innerDetail, detail>>

\* the SQL Executor.Execute receives: through ExplainOnlyExecutor when
\* explain-only is configured, else as QueryService.Execute got it
ExecInput == IF cfg.explainOnly THEN ExplainOnlyRewrite(sql) ELSE sql

\* variant without the deferred Rollback
ExecFailsWithoutRollback(e) ==
    /\ err' = e
    /\ results' = <<>>
    /\ fetched' = <<>>
    /\ tx' = tx
    /\ inbound' = NoDeadline
    /\ ctxDeadline' = NoDeadline
    /\ trace' = Append(trace, "execute_end")
    /\ pc' = "svc_audit"

\* Executor.Execute returns (nil, e): the deferred Rollback and cancel have
\* run; Rollback ends the transaction and releases its connection
ExecFails(e) ==
    /\ err' = e
    /\ results' = <<>>
    /\ fetched' = <<>>
    /\ tx' = IF tx.state = "open"
             THEN [tx EXCEPT !.state = "rolledback", !.conn = "released"]
             ELSE tx
    /\ inbound' = NoDeadline
    /\ ctxDeadline' = NoDeadline
    /\ trace' = Append(trace, "execute_end")
    /\ pc' = "svc_audit"

\* s.executor.Execute is called: [ExplainOnlyExecutor.Execute,] then
\* Executor.Execute derives its context, builds wrappedSQL and begins the
\* transaction
ExecBegin(deadline, ok, cause) ==
    /\ pc = "svc_execute"
    /\ execCalls' = execCalls + 1
    /\ wrappedSQL' = WrapSQL(ExecInput, cfg.maxRows)
    /\ IF ok
       THEN /\ inbound' = deadline
            /\ ctxDeadline' = WithTimeout(deadline, cfg.queryTimeout)
            /\ tx' = [state |-> "open", mode |-> accessMode(cfg.readOnly),
                      timeoutSet |-> FALSE, pending |-> table, conn |-> "held",
                      ran |-> FALSE]
            /\ trace' = Append(trace, "execute_start")
            /\ pc' = "tx_begun"
            /\ UNCHANGED <<err, results, fetched>>
       ELSE /\ err' = ExecErr("beginning transaction", cause)
            /\ trace' = trace \o <<"execute_start", "execute_end">>
            /\ pc' = "svc_audit"
            /\ UNCHANGED <<inbound, ctxDeadline, tx, results, fetched>>
    /\ UNCHANGED <<startup, listing, loading, recording, serving, table, sql, rawRows, sent, auditLog, queryCount, queryErrors,
                   toolResult, innerDetail, detail>>

\* tx.Exec(ctx, "SET LOCAL statement_timeout = ...")
ExecSetTimeout(ok, cause) ==
    /\ pc = "tx_begun"
    /\ IF ok
       THEN /\ tx' = [tx EXCEPT !.timeoutSet = TRUE]
            /\ pc' = "tx_ready"
            /\ UNCHANGED <<err, results, fetched, trace, inbound, ctxDeadline>>
       ELSE ExecFails(ExecErr("setting statement timeout", cause))
    /\ UNCHANGED <<startup, listing, loading, recording, serving, table, sql, wrappedSQL, rawRows, sent, execCalls, auditLog,
                   queryCount, queryErrors, toolResult, innerDetail, detail>>

\* tx.Query(ctx, wrappedSQL): the server runs the statement in the transaction
ExecQuery(lines, ok, cause) ==
    /\ pc = "tx_ready"
    /\ sent' = Append(sent, wrappedSQL)
    /\ LET r == DbRun(wrappedSQL, tx.mode, tx.pending, lines)
       IN  IF ~ok THEN ExecFails(ExecErr("executing query", cause))
           ELSE IF r.err THEN ExecFails(ExecErr("executing query", "SQLSTATE other"))
           ELSE /\ tx' = [tx EXCEPT !.pending = r.tbl, !.ran = r.ran]
                /\ fetched' = r.rows
                /\ pc' = "tx_rows"
                /\ UNCHANGED <<err, results, trace, inbound, ctxDeadline>>
    /\ UNCHANGED <<startup, listing, loading, recording, serving, table, sql, wrappedSQL, rawRows, execCalls, auditLog,
                   queryCount, queryErrors, toolResult, innerDetail, detail>>

\* rowsToMaps: the rows are appended one by one; when the iterator fails
\* after `read` rows (rows.Values or rows.Err) the function returns nil and
\* the error, else the whole list
rowsToMaps(rows, read, ok) ==
    LET result == SubSeq(rows, 1, read)
    IN  IF ok /\ read = Len(rows)
        THEN [result |-> result, failed |-> FALSE]
        ELSE [result |-> <<>>, failed |-> TRUE]

\* bug variant: the rows read before the failure are returned with the error
ExecRowsReturnsPartial(read, ok, cause) ==
    /\ pc = "tx_rows"
    /\ read \in 0..Len(fetched)
    /\ ok => read = Len(fetched)
    /\ LET r == rowsToMaps(fetched, read, ok)
       IN  IF ~r.failed
           THEN /\ fetched' = r.result
                /\ pc' = "tx_commit"
                /\ UNCHANGED <<err, results, tx, trace, inbound, ctxDeadline>>
           ELSE /\ err' = ExecErr("iterating rows", cause)
                /\ results' = SubSeq(fetched, 1, read)
                /\ fetched' = <<>>
                /\ tx' = [tx EXCEPT !.state = "rolledback", !.conn = "released"]
                /\ inbound' = NoDeadline
                /\ ctxDeadline' = NoDeadline
                /\ trace' = Append(trace, "execute_end")
                /\ pc' = "svc_audit"
    /\ UNCHANGED <<startup, listing, loading, recording, serving, table, sql, wrappedSQL, rawRows, sent, execCalls, auditLog,
                   queryCount, queryErrors, toolResult, innerDetail, detail>>

\* Executor.Execute: results, err := rowsToMaps(rows), nil rows on error
ExecRows(read, ok, cause) ==
    /\ pc = "tx_rows"
    /\ read \in 0..Len(fetched)
    /\ ok => read = Len(fetched)
    /\ LET r == rowsToMaps(fetched, read, ok)
       IN  IF ~r.failed
           THEN /\ fetched' = r.result
                /\ pc' = "tx_commit"
                /\ UNCHANGED <<err, results, tx, trace, inbound, ctxDeadline>>
           ELSE ExecFails(ExecErr("iterating rows", cause))
    /\ UNCHANGED <<startup, listing, loading, recording, serving, table, sql, wrappedSQL, rawRows, sent, execCalls, auditLog,
                   queryCount, queryErrors, toolResult, innerDetail, detail>>

\* tx.Commit(ctx) and the successful return of Executor.Execute
ExecCommit(ok, cause) ==
    /\ pc = "tx_commit"
    /\ IF ok
       THEN /\ table' = tx.pending
            /\ tx' = [tx EXCEPT !.state = "committed", !.conn = "released"]
            /\ results' = fetched
            /\ rawRows' = fetched
            /\ fetched' = <<>>
            /\ inbound' = NoDeadline
            /\ ctxDeadline' = NoDeadline
            /\ trace' = Append(trace, "execute_end")
            /\ pc' = "svc_audit"
            /\ UNCHANGED err
       ELSE /\ ExecFails(ExecErr("committing transaction", cause))
            /\ UNCHANGED <<table, rawRows>>
    /\ UNCHANGED <<startup, listing, loading, recording, serving, sql, wrappedSQL, sent, execCalls, auditLog, queryCount,
                   queryErrors, toolResult, innerDetail, detail>>

\* bug variant: the record does not carry the error
AuditEntryDropsErr(tool, sqlText, rows, e) ==
    [Tool |-> tool, SQL |-> sqlText, RowsReturned |-> Len(rows), Err |-> NoErr]

\* port.AuditEntry{Tool, SQL, RowsReturned: len(results), Err: err} as
\* QueryService.Execute builds it (the duration is not modelled)
AuditEntry(tool, sqlText, rows, e) ==
    [Tool |-> tool, SQL |-> sqlText, RowsReturned |-> Len(rows), Err |-> e]

\* bug variant: the rows are returned right after the audit record, unmasked
SvcAuditThenReturn ==
    /\ pc = "svc_audit"
    /\ auditLog' = Append(auditLog, AuditEntry("query", sql, results, err))
    /\ trace' = Append(trace, "audit")
    /\ queryErrors' = IF err # NoErr THEN queryErrors + 1 ELSE queryErrors
    /\ pc' = "svc_return"
    /\ UNCHANGED <<startup, listing, loading, recording, serving, table, sql, wrappedSQL, inbound, ctxDeadline, tx, fetched,
                   results, err, rawRows, sent, execCalls, queryCount, toolResult,
                   innerDetail, detail>>

\* QueryService.Execute: s.auditor.Record(...) and the error branch after it
SvcAudit ==
    /\ pc = "svc_audit"
    /\ auditLog' = Append(auditLog, AuditEntry("query", sql, results, err))
    /\ trace' = Append(trace, "audit")
    /\ IF err # NoErr
       THEN /\ queryErrors' = queryErrors + 1
            /\ pc' = "svc_return"
       ELSE /\ pc' = "svc_mask"
            /\ UNCHANGED queryErrors
    /\ UNCHANGED <<startup, listing, loading, recording, serving, table, sql, wrappedSQL, inbound, ctxDeadline, tx, fetched,
                   results, err, rawRows, sent, execCalls, queryCount, toolResult,
                   innerDetail, detail>>

\* variant that masks without counting the success
SvcMaskUncounted ==
    /\ pc = "svc_mask"
    /\ results' = MaskRows(results, masks)
    /\ trace' = Append(trace, "mask")
    /\ pc' = "svc_return"
    /\ UNCHANGED <<startup, listing, loading, recording, serving, table, sql, wrappedSQL,
                   inbound, ctxDeadline, tx, fetched, err, rawRows, sent, execCalls,
                   auditLog, queryCount, queryErrors, toolResult, innerDetail, detail>>

\* QueryService.Execute: success counter and domain.MaskRows(results, s.masks)
SvcMask ==
    /\ pc = "svc_mask"
    /\ queryCount' = queryCount + 1
    /\ results' = MaskRows(results, masks)
    /\ trace' = Append(trace, "mask")
    /\ pc' = "svc_return"
    /\ UNCHANGED <<startup, listing, loading, recording, serving, table, sql, wrappedSQL, inbound, ctxDeadline, tx, fetched, err,
                   rawRows, sent, execCalls, auditLog, queryErrors, toolResult,
                   innerDetail, detail>>

\* queryHandler after query.Execute returned: the tool result
HandlerReturn ==
    /\ pc = "svc_return"
    /\ trace' = Append(trace, "return")
    /\ toolResult' = IF err # NoErr
                     THEN [isError |-> TRUE, text |-> sanitizeError(err, "query"),
                           rows |-> <<>>]
                     ELSE [isError |-> FALSE, text |-> <<>>, rows |-> results]
    /\ pc' = "done"
    /\ UNCHANGED <<startup, listing, loading, recording, serving, table, sql, wrappedSQL, inbound, ctxDeadline, tx, fetched,
                   results, err, rawRows, sent, execCalls, auditLog, queryCount,
                   queryErrors, innerDetail, detail>>

\* ------------------------------------------------------------------ describe_table
\* bug variant: descriptions are merged but the sample rows are not masked
DescribeTableUnmasked(d, e) ==
    /\ pc = "idle"
    /\ IF e = NoErr
       THEN /\ innerDetail' = d
            /\ detail' = MergeTableDetail(d, pol.Context)
            /\ toolResult' = [isError |-> FALSE, text |-> <<>>, rows |-> detail'.SampleRows]
            /\ pc' = "described"
            /\ UNCHANGED err
       ELSE /\ err' = e
            /\ toolResult' = [isError |-> TRUE, text |-> sanitizeError(e, "describe table"),
                              rows |-> <<>>]
            /\ pc' = "describe_failed"
            /\ UNCHANGED <<innerDetail, detail>>
    /\ UNCHANGED <<startup, listing, loading, recording, serving, table, sql, wrappedSQL, inbound, ctxDeadline, tx, fetched,
                   results, rawRows, sent, execCalls, trace, auditLog, queryCount,
                   queryErrors>>

\* describeTableHandler calling PolicyExplorer.DescribeTable; e is what the
\* inner explorer returned
DescribeTable(d, e) ==
    /\ pc = "idle"
    /\ IF e = NoErr
       THEN /\ innerDetail' = d
            /\ detail' = [MergeTableDetail(d, pol.Context) EXCEPT
                              !.SampleRows = MaskRows(@, masks)]
            /\ toolResult' = [isError |-> FALSE, text |-> <<>>, rows |-> detail'.SampleRows]
            /\ pc' = "described"
            /\ UNCHANGED err
       ELSE /\ err' = e
            /\ toolResult' = [isError |-> TRUE, text |-> sanitizeError(e, "describe table"),
                              rows |-> <<>>]
            /\ pc' = "describe_failed"
            /\ UNCHANGED <<innerDetail, detail>>
    /\ UNCHANGED <<startup, listing, loading, recording, serving, table, sql, wrappedSQL, inbound, ctxDeadline, tx, fetched,
                   results, rawRows, sent, execCalls, trace, auditLog, queryCount,
                   queryErrors>>

\* variant that prunes from the shared policy the tables the database did
\* not list
ListTablesPrunesPolicy(ts, e) ==
    /\ pc = "idle"
    /\ IF e = NoErr
       THEN /\ innerTables' = ts
            /\ tableList' = MergeTableInfoList(ts, pol.Context)
            /\ pol' = [Context |-> [Tables |->
                          [k \in {k2 \in DOMAIN pol.Context.Tables :
                                     \E i \in 1..Len(ts) : k2 = ts[i].Schema \o "." \o ts[i].Name}
                              |-> pol.Context.Tables[k]]]]
            /\ pc' = "listed"
            /\ UNCHANGED err
       ELSE /\ err' = e
            /\ pc' = "list_failed"
            /\ UNCHANGED <<listing, pol>>
    /\ UNCHANGED <<cfg, masks, loading, recording, serving, table, sql, wrappedSQL, inbound,
                   ctxDeadline, tx, fetched, results, rawRows, sent, execCalls, trace,
                   auditLog, queryCount, queryErrors, toolResult, innerDetail, detail>>

\* PolicyExplorer.ListTables; e is what the inner explorer returned
ListTables(ts, e) ==
    /\ pc = "idle"
    /\ IF e = NoErr
       THEN /\ innerTables' = ts
            /\ tableList' = MergeTableInfoList(ts, pol.Context)
            /\ pc' = "listed"
            /\ UNCHANGED err
       ELSE /\ err' = e
            /\ pc' = "list_failed"
            /\ UNCHANGED listing
    /\ UNCHANGED <<startup, loading, recording, serving, table, sql, wrappedSQL, inbound,
                   ctxDeadline, tx, fetched, results, rawRows, sent, execCalls, trace,
                   auditLog, queryCount, queryErrors, toolResult, innerDetail, detail>>

\* ------------------------------------------------------------------ policy file
\* LoadFromFile(path): io tells whether the file could be read and decoded;
\* tableOrder and reversed fix the iteration order of validate
LoadFromFile(f, io, tableOrder, reversed) ==
    /\ loadResult.state = "none"
    /\ polFile' = f
    /\ loadResult' =
          IF io = "unreadable"
          THEN [state |-> "failed", pol |-> PolEmpty,
                err |-> LoadErr("reading policy file", "", "", "", "", "")]
          ELSE IF io = "malformed"
          THEN [state |-> "failed", pol |-> PolEmpty,
                err |-> LoadErr("parsing policy YAML", "", "", "", "", "")]
          ELSE LET colOrder == [k \in DOMAIN f.Context.Tables |->
                                   ColumnOrder(DOMAIN f.Context.Tables[k].Columns,
                                               reversed[k])]
                   e == validate(f, tableOrder, colOrder)
               IN  IF e.kind # ""
                   THEN [state |-> "failed", pol |-> PolEmpty, err |-> e]
                   ELSE [state |-> "loaded", pol |-> f, err |-> e]
    /\ UNCHANGED <<startup, request, serving, listing, recording>>

\* ------------------------------------------------------------------ audit file
\* json.Marshal of a string: a line feed inside it is written as the two
\* characters \n (one token here), so the raw line feed ends a record only
EscapeJSON(chars) == [i \in 1..Len(chars) |-> IF chars[i] = "\n" THEN "\\n" ELSE chars[i]]
UnescapeJSON(chars) == [i \in 1..Len(chars) |-> IF chars[i] = "\\n" THEN "\n" ELSE chars[i]]

\* fileEntry built from the port.AuditEntry (Error is nil when Err is nil)
fileEntry(entry) ==
    [SQL |-> entry.SQL, Error |-> IF entry.Err = NoErr THEN "null" ELSE "\"error\""]

\* json.Encoder.Encode: the object on one line, ended by a line feed (of the
\* fields, the SQL and the error are written out)
Encode(fe) == <<"{">> \o EscapeJSON(fe.SQL) \o <<",", fe.Error, "}", "\n">>

\* json.Unmarshal of one line
Decode(line) ==
    LET n == Len(line)
        ok == /\ n >= 4
              /\ line[1] = "{" /\ line[n] = "}" /\ line[n - 2] = ","
              /\ line[n - 1] \in {"null", "\"error\""}
              /\ \A i \in 2..(n - 3) : line[i] \notin {"{", "}", ",", "\n"}
    IN  IF ok THEN [ok |-> TRUE, SQL |-> UnescapeJSON(SubSeq(line, 2, n - 3)),
                    Error |-> line[n - 1]]
        ELSE [ok |-> FALSE, SQL |-> <<>>, Error |-> ""]

\* the entries the goroutines record: goroutine g records SELECT g, on one
\* line or two, that succeeded or failed
RecordedEntries ==
    {f \in [Writers -> {[Tool |-> "query", SQL |-> s, RowsReturned |-> 0, Err |-> e] :
                          s \in {<<"S", d>> : d \in {"1", "2", "3", "4"}}
                                  \cup {<<"S", "\n", d>> : d \in {"1", "2", "3", "4"}},
                          e \in {NoErr, ExecErr("executing query", "SQLSTATE other")}}] :
        \A g \in Writers : f[g].SQL[Len(f[g].SQL)] = Digits(g)[1]}

\* bug variant: the encoder is used without taking the mutex
RecordLockNoMutex(g) ==
    /\ recPc[g] = "start"
    /\ mu' = g
    /\ recBuf' = [recBuf EXCEPT ![g] = Encode(fileEntry(recEntry[g]))]
    /\ recPc' = [recPc EXCEPT ![g] = "locked"]
    /\ UNCHANGED <<startup, request, serving, listing, loading, recEntry, file>>

\* FileAuditor.Record up to a.mu.Lock(), and the encoding of the line
RecordLock(g) ==
    /\ recPc[g] = "start"
    /\ mu = 0
    /\ mu' = g
    /\ recBuf' = [recBuf EXCEPT ![g] = Encode(fileEntry(recEntry[g]))]
    /\ recPc' = [recPc EXCEPT ![g] = "locked"]
    /\ UNCHANGED <<startup, request, serving, listing, loading, recEntry, file>>

\* the encoder's Write on the O_APPEND file: os.File.Write repeats the write
\* system call until the whole line is out; one call appends n bytes
RecordWrite(g, n) ==
    /\ recPc[g] = "locked"
    /\ n \in 1..Len(recBuf[g])
    /\ file' = file \o SubSeq(recBuf[g], 1, n)
    /\ recBuf' = [recBuf EXCEPT ![g] = SubSeq(@, n + 1, Len(@))]
    /\ recPc' = [recPc EXCEPT ![g] = IF n = Len(recBuf[g]) THEN "written" ELSE "locked"]
    /\ UNCHANGED <<startup, request, serving, listing, loading, recEntry, mu>>

\* the deferred a.mu.Unlock()
RecordUnlock(g) ==
    /\ recPc[g] = "written"
    /\ mu' = 0
    /\ recPc' = [recPc EXCEPT ![g] = "done"]
    /\ UNCHANGED <<startup, request, serving, listing, loading, recEntry, recBuf, file>>

\* ------------------------------------------------------------------ alias-aware masking, applied
\* the SELECT lists given to the masker
AliasTargets == Targets \cup {Target("Email", "mail"), Target("id", "n")}
AliasLists == UNION {[1..n -> AliasTargets] : n \in 0..MaxAliasTargets}

\* the rows of SELECT tl, masked with the alias map of that statement
AliasMask(tl, order) ==
    /\ pc = "idle"
    /\ sql' = <<Kw("SELECT")>> \o tl
    /\ rawRows' = Project(table, tl)
    /\ results' = MaskRowsWithAliases(rawRows', masks, ExtractAliasMap(sql'), order)
    /\ pc' = "alias_masked"
    /\ UNCHANGED <<startup, listing, loading, recording, serving, table, wrappedSQL,
                   inbound, ctxDeadline, tx, fetched, err, sent, execCalls, trace,
                   auditLog, queryCount, queryErrors, toolResult, innerDetail, detail>>

\* ------------------------------------------------------------------ HTTP transport
\* an Authorization header is a sequence of symbols: the words "Bearer" and
\* "bearer" stand for their letters, the others are single characters
HeaderSymbols == {"Bearer", "bearer", " ", "a", "b"}
TokenChars == {"a", "b"}
SeqsUpTo(S, n) == UNION {[1..k -> S] : k \in 0..n}
\* config validate: the http transport requires a non-empty bearer token
Tokens == SeqsUpTo(TokenChars, MaxTokenLen) \ {<<>>}
Headers == SeqsUpTo(HeaderSymbols, MaxHeaderLen)
prefix == <<"Bearer", " ">>
HasPrefix(s, p) == Len(s) >= Len(p) /\ SubSeq(s, 1, Len(p)) = p
TrimPrefix(s, p) == IF HasPrefix(s, p) THEN SubSeq(s, Len(p) + 1, Len(s)) ELSE s
\* subtle.ConstantTimeCompare: 1 when both have the same length and bytes
ConstantTimeCompare(x, y) ==
    IF Len(x) = Len(y) /\ \A i \in 1..Len(x) : x[i] = y[i] THEN 1 ELSE 0

\* variant that accepts any header with the Bearer scheme
bearerAuthMiddlewareSchemeOnly(token, header) == HasPrefix(header, prefix)

\* bearerAuthMiddleware: TRUE when the request is passed to the next handler
bearerAuthMiddleware(token, header) ==
    ~ (\/ ~HasPrefix(header, prefix)
       \/ ConstantTimeCompare(TrimPrefix(header, prefix), token) # 1)

\* one request to /mcp: http.Error(401) or next.ServeHTTP
HttpRequest(header) ==
    /\ httpStatus = 0
    /\ httpHeader' = header
    /\ IF bearerAuthMiddleware(httpToken, header)
       THEN /\ handlerCalls' = handlerCalls + 1
            /\ httpStatus' = 200
       ELSE /\ handlerCalls' = handlerCalls
            /\ httpStatus' = 401
    /\ UNCHANGED <<startup, request, listing, loading, recording, httpToken,
                   lifecycle, hooks>>

\* ------------------------------------------------------------------ process lifecycle
Slots == 1..MaxRequests
\* a request is in flight from the moment the server accepts it until its
\* QueryService.Execute has returned from auditor.Record
InFlight(r) == reqs[r] \in {"running", "auditing"}
IsClosed(res) == \E i \in 1..Len(closed) : closed[i] = res
\* the deferred calls of run, in the order they execute (last deferred first):
\* otelProvider.Shutdown, closeAuditor, pool.Close
Deferred == (IF otel THEN <<"otel">> ELSE <<>>) \o <<"auditor", "pool">>

\* the HTTP server accepts a query request, which takes a pool connection
Accept(r) ==
    /\ srv.phase = "serving"
    /\ reqs[r] = "none"
    /\ reqs' = [reqs EXCEPT ![r] = "running"]
    /\ UNCHANGED <<startup, request, listing, loading, recording, auth, hooks,
                   srv, otel, closed, recorded, lost>>

\* the request's Executor.Execute returns: its connection goes back to the pool
RequestExecuted(r) ==
    /\ srv.phase # "exited"
    /\ reqs[r] = "running"
    /\ reqs' = [reqs EXCEPT ![r] = "auditing"]
    /\ UNCHANGED <<startup, request, listing, loading, recording, auth, hooks,
                   srv, otel, closed, recorded, lost>>

\* the request's FileAuditor.Record: Encode on a closed file fails and the
\* error is discarded
RequestRecord(r) ==
    /\ srv.phase # "exited"
    /\ reqs[r] = "auditing"
    /\ reqs' = [reqs EXCEPT ![r] = "done"]
    /\ IF IsClosed("auditor")
       THEN lost' = lost \cup {r} /\ recorded' = recorded
       ELSE recorded' = recorded \cup {r} /\ lost' = lost
    /\ UNCHANGED <<startup, request, listing, loading, recording, auth, hooks,
                   srv, otel, closed>>

\* SIGINT/SIGTERM: ctx.Done fires and serveHTTP calls srv.Shutdown, which
\* closes the listener
Signal ==
    /\ srv.phase = "serving"
    /\ srv' = [srv EXCEPT !.phase = "draining"]
    /\ UNCHANGED <<startup, request, listing, loading, recording, auth, hooks,
                   otel, closed, reqs, recorded, lost>>

\* srv.Shutdown returns nil once no request is in flight
ShutdownReturns ==
    /\ srv.phase = "draining"
    /\ \A r \in Slots : ~InFlight(r)
    /\ srv' = [srv EXCEPT !.phase = "closing"]
    /\ UNCHANGED <<startup, request, listing, loading, recording, auth, hooks,
                   otel, closed, reqs, recorded, lost>>

\* the 5 s of shutdownCtx pass with a request in flight: srv.Shutdown returns
\* the context's error and serveHTTP wraps and returns it
ShutdownExpires ==
    /\ srv.phase = "draining"
    /\ \E r \in Slots : InFlight(r)
    /\ srv' = [srv EXCEPT !.phase = "closing",
                          !.err = "http shutdown: context deadline exceeded"]
    /\ UNCHANGED <<startup, request, listing, loading, recording, auth, hooks,
                   otel, closed, reqs, recorded, lost>>

\* run returns: its next deferred call executes; pool.Close blocks until
\* every connection has been returned
RunDeferred ==
    /\ srv.phase = "closing"
    /\ Len(closed) < Len(Deferred)
    /\ LET res == Deferred[Len(closed) + 1]
       IN  /\ res = "pool" => \A r \in Slots : reqs[r] # "running"
           /\ closed' = Append(closed, res)
    /\ UNCHANGED <<startup, request, listing, loading, recording, auth, hooks,
                   srv, otel, reqs, recorded, lost>>

\* main: os.Exit(1) when run returned an error, status 0 otherwise
Exit ==
    /\ srv.phase = "closing"
    /\ Len(closed) = Len(Deferred)
    /\ srv' = [srv EXCEPT !.phase = "exited",
                          !.exit = IF srv.err = "" THEN 0 ELSE 1]
    /\ UNCHANGED <<startup, request, listing, loading, recording, auth, hooks,
                   otel, closed, reqs, recorded, lost>>

\* ------------------------------------------------------------------ tool-call hooks
\* JSON-RPC request ids: every client numbers its own requests
RequestIds == {1, 2}
Calls == 1..MaxCalls
\* sync.Map.Store
Store(mp, id, state) ==
    [i \in DOMAIN mp \cup {id} |-> IF i = id THEN state ELSE mp[i]]
\* sync.Map.LoadAndDelete: the map without the key
Delete(mp, id) == [i \in DOMAIN mp \ {id} |-> mp[i]]

\* the before-call hook of call c, which carries request id id: the
\* callState (start time and span of c) is stored under id
BeforeCallTool(c, id) ==
    /\ hookPc[c] = "idle"
    /\ callReq' = [callReq EXCEPT ![c] = id]
    /\ calls' = Store(calls, id, c)
    /\ hookPc' = [hookPc EXCEPT ![c] = "running"]
    /\ UNCHANGED <<startup, request, listing, loading, recording, auth, lifecycle,
                   consumed, spanEnds>>

\* the after-call hook of call c, whose tool result has IsError = isErr:
\* LoadAndDelete(id), then span.End() on the span of the state that was found
AfterCallTool(c, isErr) ==
    /\ hookPc[c] = "running"
    /\ hookPc' = [hookPc EXCEPT ![c] = IF isErr THEN "returned_error" ELSE "returned"]
    /\ LET id == callReq[c]
       IN  IF id \in DOMAIN calls
           THEN /\ consumed' = [consumed EXCEPT ![c] = calls[id]]
                /\ spanEnds' = [spanEnds EXCEPT ![calls[id]] = @ + 1]
                /\ calls' = Delete(calls, id)
           ELSE /\ UNCHANGED <<consumed, spanEnds, calls>>
    /\ UNCHANGED <<startup, request, listing, loading, recording, auth, lifecycle,
                   callReq>>

\* the error hook of call c: the same LoadAndDelete(id) and span.End()
OnError(c) ==
    /\ hookPc[c] = "running"
    /\ hookPc' = [hookPc EXCEPT ![c] = "failed"]
    /\ LET id == callReq[c]
       IN  IF id \in DOMAIN calls
           THEN /\ consumed' = [consumed EXCEPT ![c] = calls[id]]
                /\ spanEnds' = [spanEnds EXCEPT ![calls[id]] = @ + 1]
                /\ calls' = Delete(calls, id)
           ELSE /\ UNCHANGED <<consumed, spanEnds, calls>>
    /\ UNCHANGED <<startup, request, listing, loading, recording, auth, lifecycle,
                   callReq>>

\* ------------------------------------------------------------------ specifications
Executor ==
    \/ \E deadline \in InboundDeadlines, ok \in BOOLEAN :
           \E cause \in StageCauses("beginning transaction") : ExecBegin(deadline, ok, cause)
    \/ \E ok \in BOOLEAN :
           \E cause \in StageCauses("setting statement timeout") : ExecSetTimeout(ok, cause)
    \/ \E lines \in 1..MaxPlanLines, ok \in BOOLEAN :
           \E cause \in StageCauses("executing query") : ExecQuery(lines, ok, cause)
    \/ \E read \in 0..Len(fetched), ok \in BOOLEAN :
           \E cause \in StageCauses("iterating rows") : ExecRows(read, ok, cause)
    \/ \E ok \in BOOLEAN :
           \E cause \in StageCauses("committing transaction") : ExecCommit(ok, cause)

Next ==
    \/ /\ pc = "idle"
       /\ \E arg \in PipelineArgs, explain \in BOOLEAN, analyze \in BOOLEAN :
              QueryHandler(arg, explain, analyze)
    \/ SvcValidate
    \/ Executor
    \/ SvcAudit
    \/ SvcMask
    \/ HandlerReturn
    \/ /\ pc = "idle"
       /\ \E d \in InnerDetails, e \in {NoErr} \cup DescribeErrors : DescribeTable(d, e)
    \/ /\ pc = "idle"
       /\ \E ts \in InnerTableLists,
             e \in {NoErr, ExecErr("listing tables", "connect error")} : ListTables(ts, e)

\* the whole request path, under every configuration
Spec == Init /\ [][Next]_vars

\* admission control alone: the query tool and the validator on every SQL
\* text of the alphabet, under the default configuration
DefaultStartup ==
    /\ cfg = [readOnly |-> TRUE, explainOnly |-> FALSE, maxRows |-> MaxRowCap,
              queryTimeout |-> QueryTimeout]
    /\ pol = PolEmpty

InitValidate ==
    /\ Init
    /\ DefaultStartup

NextValidate ==
    \/ /\ pc = "idle"
       /\ \E arg \in SqlTexts, explain \in BOOLEAN, analyze \in BOOLEAN :
              QueryHandler(arg, explain, analyze)
    \/ SvcValidate
    \/ HandlerReturn

SpecValidate == InitValidate /\ [][NextValidate]_vars

\* the policy loader alone, on every policy file and every iteration order
NextPolicy ==
    /\ loadResult.state = "none"
    /\ \E f \in PolicyFiles, io \in {"ok", "unreadable", "malformed"} :
           \E tableOrder \in Perms(DOMAIN f.Context.Tables),
              reversed \in [DOMAIN f.Context.Tables -> BOOLEAN] :
               LoadFromFile(f, io, tableOrder, reversed)

SpecPolicy == InitValidate /\ [][NextPolicy]_vars

\* one FileAuditor shared by MaxWriters goroutines, each calling Record once
InitAudit ==
    /\ InitRequest
    /\ DefaultStartup
    /\ recEntry \in RecordedEntries
    /\ httpToken = <<"a">>
    /\ otel = TRUE

NextAudit ==
    \E g \in Writers :
        \/ RecordLock(g)
        \/ \E n \in 1..Len(recBuf[g]) : RecordWrite(g, n)
        \/ RecordUnlock(g)

SpecAudit == InitAudit /\ [][NextAudit]_vars

\* the bearer-token middleware of the HTTP transport, on every header and
\* every configured token
InitAuth ==
    /\ InitRequest
    /\ DefaultStartup
    /\ recEntry = [g \in Writers |-> NoEntry]
    /\ httpToken \in Tokens
    /\ otel = TRUE

NextAuth ==
    /\ httpStatus = 0
    /\ \E header \in Headers : HttpRequest(header)

SpecAuth == InitAuth /\ [][NextAuth]_vars

\* the HTTP server from start to exit, with and without OpenTelemetry
InitShutdown ==
    /\ InitRequest
    /\ DefaultStartup
    /\ recEntry = [g \in Writers |-> NoEntry]
    /\ httpToken = <<"a">>
    /\ otel \in BOOLEAN

NextShutdown ==
    \/ \E r \in Slots : Accept(r)
    \/ \E r \in Slots : RequestExecuted(r)
    \/ \E r \in Slots : RequestRecord(r)
    \/ Signal
    \/ ShutdownReturns
    \/ ShutdownExpires
    \/ RunDeferred
    \/ Exit

SpecShutdown == InitShutdown /\ [][NextShutdown]_vars

\* the hooks of one server under MaxCalls tool calls in flight together
NextHooks ==
    \/ \E c \in Calls, id \in RequestIds : BeforeCallTool(c, id)
    \/ \E c \in Calls, isErr \in BOOLEAN : AfterCallTool(c, isErr)
    \/ \E c \in Calls : OnError(c)

SpecHooks == InitValidate /\ [][NextHooks]_vars

\* the alias-aware masker on every SELECT list, under every policy
InitAlias ==
    /\ Init
    /\ cfg = [readOnly |-> TRUE, explainOnly |-> FALSE, maxRows |-> MaxRowCap,
              queryTimeout |-> QueryTimeout]

NextAlias ==
    /\ pc = "idle"
    /\ \E tl \in AliasLists, order \in Perms(DOMAIN masks) : AliasMask(tl, order)

SpecAlias == InitAlias /\ [][NextAlias]_vars

\* ------------------------------------------------------------------ properties
Validated == pc \in {"svc_execute", "svc_return"} /\ execCalls = 0
Admitted == pc = "svc_execute"
Rejected == pc = "svc_return" /\ execCalls = 0
Stars == StrV(<<"*", "*", "*">>)
Succeeded == pc \in {"svc_return", "done"} /\ execCalls = 1 /\ err = NoErr
IndexOf(ev) == CHOOSE i \in 1..Len(trace) : trace[i] = ev
Happened(ev) == \E i \in 1..Len(trace) : trace[i] = ev
\* ev2 happens only after ev1 has
Precedes(ev1, ev2) == Happened(ev2) => Happened(ev1) /\ IndexOf(ev1) < IndexOf(ev2)

\* C1: Validate returns nil only for a text that parses to exactly one
\* statement whose top-level kind is SelectStmt or ExplainStmt; an empty or
\* whitespace-only text gives ErrEmptyQuery, a parse failure ErrParseFailed,
\* more than one statement ErrMultiStatement, one statement of another kind
\* ErrNotAllowed.
C1_ValidateWhitelist ==
    Validated =>
        LET tree == Parse(TrimSpace(sql))
            one == ~tree.err /\ Len(tree.Stmts) = 1
        IN  /\ Admitted <=> (one /\ tree.Stmts[1].kind \in {"SelectStmt", "ExplainStmt"})
            /\ Admitted =>
                 LET words == SelectSeq(sql, LAMBDA tok : tok \notin {Kw(" "), Kw(";")})
                 IN  words # <<>> /\ Head(words) \in {Kw("SELECT"), Kw("EXPLAIN")}
            /\ Rejected =>
                 /\ NoSpace(sql) = <<>> => err = ErrEmptyQuery
                 /\ (~tree.err /\ Len(tree.Stmts) = 0) => err = ErrEmptyQuery
                 /\ tree.err => err = ErrParseFailed
                 /\ (~tree.err /\ Len(tree.Stmts) > 1) => err = ErrMultiStatement
                 /\ (one /\ tree.Stmts[1].kind \notin {"SelectStmt", "ExplainStmt"})
                        => err = ErrNotAllowed

C1_Witness ==
    /\ Rejected
    /\ err = ErrMultiStatement
    /\ sql = <<Kw("SELECT"), Kw(";"), Kw("DELETE")>>

\* C2: Validate rejects every EXPLAIN whose inner statement is not a SELECT,
\* whether the EXPLAIN comes from the caller's SQL or from the query tool's
\* explain / analyze prefix: an admitted ExplainStmt has a SelectStmt inside.
C2_ExplainInnerIsSelect ==
    Admitted =>
        LET st == Parse(TrimSpace(sql)).Stmts[1]
        IN  st.kind = "ExplainStmt" => st.inner = "SelectStmt"

\* C3: no SQL that passes validation, under any configuration, commits a
\* change to the database.
C3_NoCommittedWrite == table = InitialTable

C5_Envelope ==
    /\ [][sent' # sent =>
            /\ sent' = Append(sent, wrappedSQL)
            /\ tx.state = "open"
            /\ cfg.readOnly => tx.mode = "ReadOnly"
            /\ tx.timeoutSet
            /\ ctxDeadline \in {cfg.queryTimeout, inbound} \ {NoDeadline}
            /\ ctxDeadline <= cfg.queryTimeout
            /\ inbound # NoDeadline => ctxDeadline <= inbound]_vars
    /\ [](err.stage \in {"beginning transaction", "setting statement timeout"}
            => sent = <<>>)

C5_Witness ==
    /\ pc = "tx_rows" /\ sent = <<wrappedSQL>>
    /\ cfg.readOnly /\ tx.mode = "ReadOnly" /\ tx.timeoutSet
    /\ inbound = 1 /\ ctxDeadline = 1 /\ cfg.queryTimeout > 1

\* C6: after a successful QueryService.Execute every field of every returned
\* row whose name is a column of the MaskSpec holds the masked value (*** for
\* a non-null value under redact), and every other field is unchanged.
C6_MaskedByName ==
    Succeeded =>
        /\ Len(results) = Len(rawRows)
        /\ \A i \in 1..Len(results) :
              /\ DOMAIN results[i] = DOMAIN rawRows[i]
              /\ \A c \in DOMAIN results[i] :
                    IF c \in DOMAIN masks
                    THEN /\ results[i][c] = ApplyMask(rawRows[i][c], masks[c])
                         /\ (masks[c] = "redact" /\ rawRows[i][c] # NilV)
                                => results[i][c] = Stars
                         /\ (masks[c] = "null") => results[i][c] = NilV
                    ELSE results[i][c] = rawRows[i][c]
        /\ pc = "done" => toolResult.rows = results

C6_Witness ==
    /\ Succeeded /\ pc = "done"
    /\ Len(rawRows) = 2
    /\ "Email" \in DOMAIN masks /\ masks["Email"] = "redact"
    /\ DOMAIN rawRows[1] = {"id", "Email"}
    /\ rawRows[1]["Email"] = Alice /\ toolResult.rows[1]["Email"] = Stars
    /\ toolResult.rows[1]["id"] = IntV(1)

\* C7: a masked column selected under an alias is still masked: after a
\* successful QueryService.Execute of a SELECT, the field named by the alias
\* of a plain reference to a MaskSpec column holds the masked value.
C7_AliasMasked ==
    (Succeeded /\ ~cfg.explainOnly) =>
        LET st == Parse(TrimSpace(sql)).Stmts[1]
        IN  st.kind = "SelectStmt" =>
              \A k \in 1..Len(st.targets) :
                 (/\ st.targets[k].as # ""
                  /\ st.targets[k].col \in DOMAIN masks
                  /\ \A j \in 1..Len(st.targets) :
                        ColName(st.targets[j]) = st.targets[k].as => j = k)
                 => \A i \in 1..Len(results) :
                       results[i][st.targets[k].as]
                          = ApplyMask(rawRows[i][st.targets[k].as],
                                      masks[st.targets[k].col])

\* C8: whenever PolicyExplorer.DescribeTable returns a TableDetail, every
\* sample-row field named in the MaskSpec holds the masked value, not the
\* value the inner explorer returned.
C8_SampleRowsMasked ==
    pc = "described" =>
        /\ Len(detail.SampleRows) = Len(innerDetail.SampleRows)
        /\ \A i \in 1..Len(detail.SampleRows) :
              /\ DOMAIN detail.SampleRows[i] = DOMAIN innerDetail.SampleRows[i]
              /\ \A c \in DOMAIN detail.SampleRows[i] \cap DOMAIN masks :
                    /\ detail.SampleRows[i][c]
                          = ApplyMask(innerDetail.SampleRows[i][c], masks[c])
                    /\ innerDetail.SampleRows[i][c] # NilV
                          => detail.SampleRows[i][c] # innerDetail.SampleRows[i][c]

C8_Witness ==
    /\ pc = "described"
    /\ Len(innerDetail.SampleRows) = 2
    /\ "Email" \in DOMAIN masks /\ masks["Email"] = "partial"
    /\ innerDetail.SampleRows[2]["Email"] = Alice
    /\ detail.SampleRows[2]["Email"] = StrV(<<"*", "*", "*", "c", "e", "@", "x">>)

\* C9: a QueryService.Execute call invokes the executor at most once, and
\* only when Validate returned no error for its SQL; an executor error is
\* returned as it is, without a second call.
C9_ExecutorAtMostOnce ==
    /\ execCalls <= 1
    /\ execCalls = 1 =>
          /\ Validate(sql) = NoErr
          /\ Precedes("validate", "execute_start")
    /\ Happened("validate") /\ Validate(sql) # NoErr => execCalls = 0
    /\ (pc = "done" /\ err.stage \notin {"", "validate"}) =>
          /\ execCalls = 1
          /\ toolResult.isError
          /\ Cardinality({i \in 1..Len(trace) : trace[i] = "execute_start"}) = 1

C9_Witness ==
    /\ pc = "done" /\ execCalls = 1
    /\ err = ExecErr("executing query", "SQLSTATE 57014")
    /\ toolResult.text = <<"query", "query timed out">>

\* C10: within a request, validation completes before execution starts,
\* execution completes before the audit record is written and before masking,
\* and masking completes before the rows are returned.
C10_StepOrder ==
    /\ Precedes("validate", "execute_start")
    /\ Precedes("execute_start", "execute_end")
    /\ Precedes("execute_end", "audit")
    /\ Precedes("execute_end", "mask")
    /\ (Happened("return") /\ err = NoErr) =>
          Happened("mask") /\ IndexOf("mask") < IndexOf("return")
    /\ (pc = "done" /\ ~toolResult.isError /\ Happened("return")) =>
          toolResult.rows = MaskRows(rawRows, masks)

C10_Witness ==
    /\ pc = "done"
    /\ trace = <<"validate", "execute_start", "execute_end", "audit", "mask", "return">>
    /\ Len(toolResult.rows) > 0

\* C11: a QueryService.Execute call that reached the executor has appended
\* no audit entry while the executor runs and exactly one once it has
\* returned, whether it succeeded, failed, timed out or was cancelled; the
\* entry carries the SQL, and on error rows_returned = 0 and the error.
C11_OneAuditEntryPerExecution ==
    /\ pc \in {"svc_execute", "tx_begun", "tx_ready", "tx_rows", "tx_commit", "svc_audit"}
          => auditLog = <<>>
    /\ (execCalls = 1 /\ pc \in {"svc_mask", "svc_return", "done"}) =>
          /\ Len(auditLog) = 1
          /\ auditLog[1].Tool = "query" /\ auditLog[1].SQL = sql
          /\ err # NoErr => auditLog[1].RowsReturned = 0 /\ auditLog[1].Err = err
          /\ err = NoErr => auditLog[1].RowsReturned = Len(rawRows) /\ auditLog[1].Err = NoErr

C11_Witness ==
    /\ pc = "done" /\ execCalls = 1 /\ Len(sent) = 1
    /\ err = ExecErr("committing transaction", "context canceled")
    /\ auditLog = <<AuditEntry("query", sql, <<>>, err)>>

\* C12: when Validate fails QueryService.Execute returns that validation
\* error and the auditor is not called: no audit record exists for SQL that
\* validation rejected.
C12_NoAuditOnRejection ==
    (Happened("validate") /\ Validate(sql) # NoErr) =>
        /\ auditLog = <<>>
        /\ err = Validate(sql)
        /\ pc \in {"svc_return", "done"}

C12_Witness ==
    /\ pc = "done" /\ sql = <<Kw("DELETE")>>
    /\ err = ErrNotAllowed /\ queryErrors = 1
    /\ auditLog = <<>>

\* C13: a query tool call with sql = DROP TABLE users returns an error result
\* containing 'only SELECT queries are allowed', changes no database state,
\* and produces an audit record with the error field set.
C13_DropTableAudited ==
    (pc = "done" /\ sql = <<Kw("DROP")>>) =>
        /\ toolResult.isError
        /\ toolResult.text = <<"query", "only SELECT queries are allowed">>
        /\ table = InitialTable
        /\ \E i \in 1..Len(auditLog) : auditLog[i].Err # NoErr

\* C14: Executor.Execute never returns partial rows: while it runs the
\* caller holds no rows, and when it has returned the caller holds either
\* the complete bounded result with a nil error, or no rows with an error
\* (failures while iterating the rows and at commit included).
C14_NoPartialRows ==
    /\ pc \in {"svc_execute", "tx_begun", "tx_ready", "tx_rows", "tx_commit"}
          => results = <<>>
    /\ pc = "svc_audit" =>
          \/ /\ err # NoErr
             /\ results = <<>>
          \/ /\ err = NoErr
             /\ results = rawRows
             /\ tx.state = "committed"
             /\ LET st == Parse(ExecInput).Stmts[1]
                IN  IF isExplain(ExecInput)
                    THEN Len(results) >= 1 /\ results = PlanRows(Len(results))
                    ELSE results = FirstN(Project(InitialTable, st.targets), cfg.maxRows)

C14_Witness ==
    /\ pc = "svc_audit" /\ Len(sent) = 1 /\ ~isExplain(ExecInput)
    /\ err = ExecErr("iterating rows", "SQLSTATE 57014")
    /\ tx.state = "rolledback"
    /\ results = <<>>

\* C15: the message a tool returns for an error e of operation op carries
\* text of e only when e is validation-class (a validator error or not
\* found); for every other e it is exactly op with one of 'query timed out',
\* 'database unavailable', 'internal error (check server logs)', and holds
\* nothing of e's own text.
C15_SanitizedErrors ==
    (toolResult.isError /\ err # NoErr /\ pc \in {"done", "describe_failed"}) =>
        LET op == IF pc = "done" THEN "query" ELSE "describe table"
        IN  IF err \in {ErrEmptyQuery, ErrNotAllowed, ErrMultiStatement, ErrParseFailed,
                        ErrNotFound}
            THEN toolResult.text = <<op, err.cause>>
            ELSE /\ Len(toolResult.text) = 2
                 /\ toolResult.text[1] = op
                 /\ toolResult.text[2] \in {"query timed out", "database unavailable",
                                            "internal error (check server logs)"}
                 /\ toolResult.text[2] \notin {err.cause, err.stage}

C15_Witness ==
    /\ pc = "done" /\ toolResult.isError
    /\ err = ExecErr("executing query", "SQLSTATE other")
    /\ toolResult.text = <<"query", "internal error (check server logs)">>

\* C16: when the query runs past the timeout, whichever layer reports it
\* (the context deadline in the process, or the server's statement_timeout
\* as SQLSTATE 57014) and at whichever executor call, the error reaches the
\* query tool through Executor and QueryService and the tool returns
\* 'query timed out'.
C16_TimeoutMessage ==
    (pc = "done" /\ execCalls = 1
        /\ err.cause \in {"context deadline exceeded", "SQLSTATE 57014"}) =>
        /\ toolResult.isError
        /\ toolResult.text = <<"query", "query timed out">>
        /\ toolResult.rows = <<>>
        /\ auditLog[1].Err = err

C16_Witness ==
    /\ pc = "done" /\ Len(sent) = 1
    /\ err = ExecErr("iterating rows", "SQLSTATE 57014")
    /\ toolResult.text = <<"query", "query timed out">>

\* C19: the policy merge never overrides a database comment: after
\* DescribeTable and ListTables a table's or column's comment is the policy
\* description only where the database comment was empty, every non-empty
\* database comment is as the database gave it, and the other fields are
\* unchanged (sample rows aside from their masking).
C19_MergeKeepsDbComments ==
    LET desc(key) == IF key \in DOMAIN pol.Context.Tables
                     THEN pol.Context.Tables[key].Description ELSE ""
        colDesc(key, c) ==
            IF key \in DOMAIN pol.Context.Tables
                  /\ c \in DOMAIN pol.Context.Tables[key].Columns
            THEN pol.Context.Tables[key].Columns[c].Description ELSE ""
        merged(old, d) == IF old # "" THEN old ELSE d
    IN  /\ pc = "described" =>
              LET key == innerDetail.Schema \o "." \o innerDetail.Name
              IN  /\ detail.Schema = innerDetail.Schema /\ detail.Name = innerDetail.Name
                  /\ detail.Comment = merged(innerDetail.Comment, desc(key))
                  /\ Len(detail.Columns) = Len(innerDetail.Columns)
                  /\ \A i \in 1..Len(detail.Columns) :
                        /\ detail.Columns[i].Name = innerDetail.Columns[i].Name
                        /\ detail.Columns[i].Comment =
                              merged(innerDetail.Columns[i].Comment,
                                     colDesc(key, innerDetail.Columns[i].Name))
                  /\ detail.SampleRows = MaskRows(innerDetail.SampleRows, masks)
        /\ pc = "listed" =>
              /\ Len(tableList) = Len(innerTables)
              /\ \A i \in 1..Len(tableList) :
                    LET t == innerTables[i]
                    IN  tableList[i] =
                          [t EXCEPT !.Comment = merged(@, desc(t.Schema \o "." \o t.Name))]

C19_Witness ==
    /\ pc = "described" /\ pol = PolRedact
    /\ innerDetail.Name = "users"
    /\ innerDetail.Comment = "db table comment" /\ detail.Comment = "db table comment"
    /\ innerDetail.Columns[2].Comment = "" /\ detail.Columns[2].Comment = "User email"

MaskConflict(f) ==
    \E k1, k2 \in DOMAIN f.Context.Tables :
        \E c \in DOMAIN f.Context.Tables[k1].Columns \cap DOMAIN f.Context.Tables[k2].Columns :
            /\ f.Context.Tables[k1].Columns[c].Mask # ""
            /\ f.Context.Tables[k2].Columns[c].Mask # ""
            /\ f.Context.Tables[k1].Columns[c].Mask # f.Context.Tables[k2].Columns[c].Mask
OtherDefect(f) ==
    \/ "" \in DOMAIN f.Context.Tables
    \/ \E k \in DOMAIN f.Context.Tables :
           \E c \in DOMAIN f.Context.Tables[k].Columns :
               c = "" \/ ~Valid(f.Context.Tables[k].Columns[c].Mask)
Decoded == loadResult.state # "none"
              /\ loadResult.err.kind \notin {"reading policy file", "parsing policy YAML"}

\* C17: LoadFromFile fails whenever two tables give the same bare column
\* name two different non-empty masks, in whatever order the tables and
\* columns are visited; when that is the file's only defect the error is the
\* conflict, and a conflict error names the column and two tables of the
\* file that give it the two different masks; a file without defect (the
\* same mask on a column name in several tables included) loads as it is.
C17_ConflictingMasksRejected ==
    Decoded =>
        /\ MaskConflict(polFile) => loadResult.state = "failed"
        /\ (MaskConflict(polFile) /\ ~OtherDefect(polFile))
              => loadResult.err.kind = "conflicting masks"
        /\ loadResult.err.kind = "conflicting masks" =>
              LET e == loadResult.err
                  T == polFile.Context.Tables
              IN  /\ e.table1 \in DOMAIN T /\ e.table2 \in DOMAIN T /\ e.table1 # e.table2
                  /\ e.col \in DOMAIN T[e.table1].Columns \cap DOMAIN T[e.table2].Columns
                  /\ T[e.table1].Columns[e.col].Mask = e.mask1
                  /\ T[e.table2].Columns[e.col].Mask = e.mask2
                  /\ e.mask1 # e.mask2 /\ e.mask1 # "" /\ e.mask2 # ""
        /\ (~MaskConflict(polFile) /\ ~OtherDefect(polFile))
              => loadResult.state = "loaded" /\ loadResult.pol = polFile

C17_Witness ==
    /\ loadResult.state = "failed"
    /\ DOMAIN polFile.Context.Tables = {"public.users", "public.orders"}
    /\ loadResult.err = LoadErr("conflicting masks", "email", "hash", "public.orders",
                                "redact", "public.users")

\* C18: LoadFromFile rejects every policy in which some table key is empty
\* or is not of the form schema.table (one '.' separator): every table key
\* of a loaded policy has that form.
C18_TableKeysQualified ==
    loadResult.state = "loaded" =>
        \A k \in DOMAIN polFile.Context.Tables :
            k \in {s \o "." \o t : s \in {"public"}, t \in {"users", "orders"}}

RECURSIVE CompleteLines(_, _)
\* the lines of the file that are ended by a line feed (cur is the line
\* being collected)
CompleteLines(f, cur) ==
    IF f = <<>> THEN <<>>
    ELSE IF Head(f) = "\n" THEN <<cur>> \o CompleteLines(Tail(f), <<>>)
    ELSE CompleteLines(Tail(f), Append(cur, Head(f)))

RECURSIVE LastLine(_, _)
\* what follows the last line feed of the file
LastLine(f, cur) ==
    IF f = <<>> THEN cur
    ELSE IF Head(f) = "\n" THEN LastLine(Tail(f), <<>>)
    ELSE LastLine(Tail(f), Append(cur, Head(f)))

\* C20: when goroutines call FileAuditor.Record concurrently on one auditor
\* the file holds one complete line per Record call that has written, each
\* line decodes to the entry of exactly one of those calls, and bytes after
\* the last line feed belong to the one call that is writing: records never
\* interleave, and N finished calls leave exactly N lines.
C20_RecordsDoNotInterleave ==
    LET written == {g \in Writers : recPc[g] \in {"written", "done"}}
        ls == CompleteLines(file, <<>>)
        rest == LastLine(file, <<>>)
    IN  /\ Len(ls) = Cardinality(written)
        /\ \A i \in 1..Len(ls) :
              /\ Decode(ls[i]).ok
              /\ \E g \in written :
                    /\ Decode(ls[i]).SQL = recEntry[g].SQL
                    /\ Decode(ls[i]).Error = fileEntry(recEntry[g]).Error
        /\ \A g \in written :
              \E i \in 1..Len(ls) : ls[i] \o <<"\n">> = Encode(fileEntry(recEntry[g]))
        /\ rest # <<>> =>
              \E g \in Writers :
                  /\ recPc[g] = "locked" /\ mu = g
                  /\ rest \o recBuf[g] = Encode(fileEntry(recEntry[g]))

C20_Witness ==
    /\ \A g \in Writers : recPc[g] = "done"
    /\ Len(CompleteLines(file, <<>>)) = MaxWriters
    /\ recEntry[1].SQL = <<"S", "\n", "1">>
    /\ CompleteLines(file, <<>>)[MaxWriters] = <<"{", "S", "\\n", "1", ",", "null", "}">>


\* C21: on the HTTP transport a request to /mcp reaches the MCP handler only
\* if its Authorization header is "Bearer ", then exactly the configured
\* non-empty token; a missing header, another scheme or a wrong token is
\* answered 401 and the handler is not invoked.
C21_BearerTokenGate ==
    httpStatus # 0 =>
        /\ httpToken # <<>>
        /\ handlerCalls = 1 => httpHeader = <<"Bearer", " ">> \o httpToken
        /\ httpHeader # <<"Bearer", " ">> \o httpToken =>
                httpStatus = 401 /\ handlerCalls = 0

\* a request with the Bearer scheme and a wrong token was refused
C21_Witness ==
    /\ httpStatus = 401
    /\ handlerCalls = 0
    /\ HasPrefix(httpHeader, prefix)
    /\ Len(httpHeader) = Len(prefix) + Len(httpToken)
    /\ httpHeader # prefix \o httpToken


\* C22: on SIGINT/SIGTERM the process stops accepting requests, waits for the
\* requests in flight (up to 5 seconds), then closes the pool, then the
\* auditor, then the tracing provider, in that order, and exits with status 0.
C22_ShutdownOrder ==
    srv.phase = "exited" =>
        /\ closed = <<"pool", "auditor">> \o (IF otel THEN <<"otel">> ELSE <<>>)
        /\ srv.exit = 0

\* C30: no audit record of an executed query is lost at shutdown: the audit
\* file is closed only after every request in flight has finished its Record
\* call, also when the 5-second shutdown wait expires with requests running.
C30_NoAuditRecordLost ==
    /\ IsClosed("auditor") => \A r \in Slots : ~InFlight(r)
    /\ lost = {}
    /\ srv.phase = "exited" => \A r \in Slots : reqs[r] # "none" => r \in recorded


\* C27: for tool calls in flight at the same time, also from different HTTP
\* clients that use the same request id, the state stored by a call's
\* before-call hook is consumed exactly once, by the end hook of that same
\* call: every completed call has read its own state, its span was ended
\* exactly once, no span is ended twice, and nothing of a completed call
\* stays in the map.
C27_CallStatePerCall ==
    /\ \A c \in Calls :
           hookPc[c] \in {"returned", "returned_error", "failed"} =>
               /\ consumed[c] = c
               /\ spanEnds[c] = 1
    /\ \A c \in Calls : spanEnds[c] <= 1
    /\ \A id \in DOMAIN calls : hookPc[calls[id]] = "running"


\* C28: with the alias map of ExtractAliasMap, MaskRowsWithAliases masks every
\* result field that is a plain reference to a column named in the MaskSpec,
\* also when the masked column appears under two aliases, or both unaliased
\* and aliased, in one SELECT list.
C28_AliasedFieldsMasked ==
    pc = "alias_masked" =>
        \A i \in 1..Len(results), j \in 2..Len(sql) :
            sql[j].col \in DOMAIN masks =>
                results[i][ColName(sql[j])] = ApplyMask(table[i][sql[j].col], masks[sql[j].col])

\* a masked column that appears once in the SELECT list, aliased or not, is
\* masked in every row
OnceListedMasked ==
    pc = "alias_masked" =>
        \A i \in 1..Len(results), j \in 2..Len(sql) :
            /\ sql[j].col \in DOMAIN masks
            /\ \A k \in 2..Len(sql) : sql[k].col = sql[j].col => k = j
            => results[i][ColName(sql[j])] = ApplyMask(table[i][sql[j].col], masks[sql[j].col])


C26_PolicyReadOnly == [][pol' = pol /\ masks' = masks]_vars

\* a query was answered with rows masked under a non-empty MaskSpec
C26_Witness ==
    /\ pc = "done"
    /\ err = NoErr
    /\ DOMAIN masks # {}
    /\ pol # PolEmpty
    /\ results # rawRows
    /\ toolResult.rows = results


\* C25: every Executor.Execute call that obtained a transaction ends it,
\* committed on success and rolled back otherwise, and has given its
\* connection back to the pool when it returns, on every exit path: deadline,
\* cancellation, statement-timeout failure and row-iteration error included.
C25_TransactionEndedConnectionReleased ==
    /\ tx.conn = "held" <=> tx.state = "open"
    /\ tx.state = "open" <=> pc \in {"tx_begun", "tx_ready", "tx_rows", "tx_commit"}
    /\ Happened("execute_end") =>
           /\ tx.state \in {"none", "committed", "rolledback"}
           /\ tx.state = "none" => err.stage = "beginning transaction"
           /\ tx.state = "committed" <=> err = NoErr
           /\ tx.state # "none" => tx.conn = "released"

\* Executor.Execute returned a row-iteration error with the transaction
\* rolled back and the connection released
C25_Witness ==
    /\ Happened("execute_end")
    /\ err.stage = "iterating rows"
    /\ tx.state = "rolledback"
    /\ tx.conn = "released"


\* C23: with the ExplainOnly decorator in front of the executor every SQL
\* string handed to the inner executor begins with EXPLAIN, and no user query
\* is actually run: the server executes no statement, the table is as it
\* was, and the response holds plan lines only.
C23_ExplainOnlyRunsNothing ==
    cfg.explainOnly =>
        /\ \A i \in 1..Len(sent) : isExplain(sent[i])
        /\ ~tx.ran
        /\ table = InitialTable
        /\ \A i \in 1..Len(results) : DOMAIN results[i] = {"QUERY PLAN"}

\* every SQL string the explain-only executor hands on begins with EXPLAIN
ExplainOnlySendsExplain ==
    cfg.explainOnly => \A i \in 1..Len(sent) : isExplain(sent[i])


\* the values the column holds in the database, as text
RawValues(c) == {Render(table[r][c]) : r \in {r2 \in 1..Len(table) : table[r2][c] # NilV}}
\* the values a ColumnStats discloses
StatValues(st) ==
    {st.MostCommonVals[k] : k \in 1..Len(st.MostCommonVals)}
        \cup ({st.MinValue, st.MaxValue} \ {<<>>})

\* C29: the describe_table result for a table with a masked column discloses
\* no raw value of that column anywhere in the TableDetail: the sample rows
\* hold the masked values, and the column's statistics (most common values,
\* minimum and maximum) contain none of its values.
C29_NoRawValueInDetail ==
    pc = "described" =>
        /\ \A i \in 1..Len(detail.SampleRows) :
              \A c \in DOMAIN detail.SampleRows[i] \cap DOMAIN masks :
                  detail.SampleRows[i][c] # NilV =>
                      Render(detail.SampleRows[i][c]) \notin RawValues(c)
        /\ \A j \in 1..Len(detail.Columns) :
              detail.Columns[j].Name \in DOMAIN masks =>
                  StatValues(detail.Columns[j].Stats) \cap RawValues(detail.Columns[j].Name) = {}

====
